---- MODULE Spec2Model ----
(***************************************************************************)
(* Model of the git operation coordinator of crates/project/src/git.rs:    *)
(* GitStore (the repository list, the active index, the job worker) and    *)
(* Repository (the operation surface and the askpass correlation map).     *)
(*                                                                         *)
(* Option<T> is modelled as a sequence: None is <<>>, Some(x) is <<x>>.    *)
(* Indices are 0-based as in the source; a Vec v is a sequence and v[i] of *)
(* the source is v[i + 1] here.                                            *)
(***************************************************************************)
EXTENDS Integers, Sequences, FiniteSets, TLC

VARIABLES
    state,          \* GitStore.state: the GitStoreState variant
    worktree_store, \* what the worktrees currently report (the WorktreeStore)
    entities,       \* the Repository entities the store holds, by handle
    next_handle,    \* the handle the next created entity gets
    repositories,   \* GitStore.repositories: Vec of handles
    active_index,   \* GitStore.active_index: Option<usize>
    emitted,        \* the GitEvents the last operation emitted (none at first)
    last_pass,      \* history: what the last reconciliation pass started from
    job_table,      \* every GitJob submitted so far, in submission order
    job_rx,         \* the jobs in the mpsc channel, not yet received by the worker
    channel_open,   \* a sending end of the channel is still held
    jobs,           \* the worker's VecDeque
    worker_pc,      \* where the worker task is suspended
    running,        \* the jobs whose task has started and not yet completed
    executed,       \* history: the jobs the worker started, in that order
    result,         \* per job, what its oneshot result channel holds
    popped_at,      \* history: per job, how many jobs were submitted when it was popped
    asks,           \* the handle_askpass calls awaiting ask_password
    reply,          \* what the last handle_askpass call returned, if any
    assert_failed,  \* a debug_assert!(askpass_delegate.is_some()) did not hold
    buffers,        \* the BufferStore: per repository path, the open buffer if any
    stage_calls,    \* the stage_entries / unstage_entries calls made so far
    requests,       \* the inbound Stage / Unstage requests handled so far
    diffs,          \* per diff job, its caller, the backend's diff and what came back
    open_calls,     \* the open_commit_buffer calls made so far
    next_buffer,    \* the id the next created buffer gets
    hunk_writes,    \* the index writes of staged hunks and the diffs with pending hunks
    git_inits       \* the git_init calls made so far

store_vars == <<state, worktree_store, entities, next_handle, repositories, active_index,
                emitted, last_pass>>
worker_vars == <<job_table, job_rx, channel_open, jobs, worker_pc, running, executed, result,
                 popped_at>>
askpass_vars == <<asks, reply, assert_failed>>
call_vars == <<buffers, stage_calls, requests, diffs, open_calls, next_buffer,
              hunk_writes, git_inits>>
vars == <<store_vars, worker_vars, askpass_vars, call_vars>>

(***************************************************************************)
(* Bounds and input domains                                                *)
(***************************************************************************)
MaxEntities == 3
MaxJobs == 3
MaxRemoteOps == 2

None == <<>>
Some(x) == <<x>>

\* No hunk has been staged: no index write is watched, no diff has pending hunks.
NoHunkWrites == [watchers |-> <<>>, pending |-> {}]

WorktreeIds == {1, 2}
\* Worktrees for which Worktree::as_local() is Some and get_local_repo finds
\* the repository; the other worktrees are remote worktrees.
LocalWorktrees == {1}
\* ProjectEntryIds of the work directories each worktree can report.
WorkDirectoryIds(worktree_id) == IF worktree_id = 1 THEN {11, 12} ELSE {21}
WorktreeStoreEvents == {"WorktreeUpdatedGitRepositories", "WorktreeAdded"}
GitStoreStates == {"Local", "Ssh", "Remote"}

Identities == UNION {{<<w, d>> : d \in WorkDirectoryIds(w)} : w \in WorktreeIds}

\* What a worktree can report of a working directory: its status and, for a
\* local worktree, the merge message of its LocalRepositoryEntry.  Work
\* directory 11 is at times modified and at times in the middle of a merge,
\* 21 is at times modified, 12 stays clean.
Reports(id) ==
    IF id[2] = 11
    THEN { [status |-> "clean", merge_message |-> None],
           [status |-> "modified", merge_message |-> None],
           [status |-> "modified", merge_message |-> Some("merge")] }
    ELSE IF id[2] = 21
    THEN { [status |-> "clean", merge_message |-> None],
           [status |-> "modified", merge_message |-> None] }
    ELSE { [status |-> "clean", merge_message |-> None] }

\* One working directory as a worktree snapshot reports it.
SnapshotEntries ==
    UNION {
        { [worktree_id |-> id[1], work_directory_id |-> id[2],
           status |-> r.status, merge_message |-> r.merge_message] : r \in Reports(id) } :
        id \in Identities }

EntryId(e) == <<e.worktree_id, e.work_directory_id>>

Range(s) == {s[i] : i \in 1..Len(s)}

\* The nested loops of lines 277-280 visit the worktrees one after another (in
\* the store's current order) and, within a worktree, each of its repositories
\* once, in the snapshot's path order (here the order of the ids).
IsSnapshot(s) ==
    /\ \A i, j \in 1..Len(s) : i # j => EntryId(s[i]) # EntryId(s[j])
    /\ \A i, j \in 1..Len(s) :
          (i < j /\ s[i].worktree_id = s[j].worktree_id)
              => s[i].work_directory_id < s[j].work_directory_id
    /\ \A i, j, k \in 1..Len(s) :
          (i < j /\ j < k /\ s[i].worktree_id = s[k].worktree_id)
              => s[j].worktree_id = s[i].worktree_id

MaxReported == Cardinality(Identities)

Snapshots ==
    UNION { {s \in [1..n -> SnapshotEntries] : IsSnapshot(s)} : n \in 0..MaxReported }

(***************************************************************************)
(* GitStore: reconciliation of the repository list                         *)
(***************************************************************************)
\* GitStore::project_id
ProjectId(st) == IF st = "Local" THEN None ELSE Some("project")

\* Repository::id
RepositoryId(repo) == <<repo.worktree_id, repo.repository_entry.work_directory_id>>

\* Mutant of GitData: a working directory of a non-local worktree gets the
\* Remote backend even in a store without a project id.
GitDataAlwaysMapped(st, e) ==
    IF e.worktree_id \in LocalWorktrees
    THEN Some([git_repo |-> "Local", merge_message |-> e.merge_message])
    ELSE Some([git_repo |-> "Remote", merge_message |-> None])

\* lines 281-302: the backend and merge message of a reported working directory
GitData(st, e) ==
    IF e.worktree_id \in LocalWorktrees
    THEN Some([git_repo |-> "Local", merge_message |-> e.merge_message])
    ELSE IF ProjectId(st) # None
         THEN Some([git_repo |-> "Remote", merge_message |-> None])
         ELSE None

\* Mutant of FindExisting: the first handle of the list matches any identity.
FindExistingAnyIdentity(repos, ents, id) ==
    IF repos # <<>> THEN Some(0) ELSE None

\* Mutant of FindExisting: no tracked handle is ever found.
FindExistingNever(repos, ents, id) == None

\* lines 307-314: index of the first tracked handle with this identity
FindExisting(repos, ents, id) ==
    LET hits == {i \in 1..Len(repos) : RepositoryId(ents[repos[i]]) = id}
    IN  IF hits = {} THEN None
        ELSE Some((CHOOSE i \in hits : \A j \in hits : i <= j) - 1)

\* Mutant of CarryActiveIndex: the index in the old list is carried over.
CarryOldIndex(active, index, new_len, new_active) ==
    IF active = Some(index) THEN Some(index) ELSE new_active

\* Mutant of CarryActiveIndex: the active selection is not carried over.
CarryNothing(active, index, new_len, new_active) == new_active

\* lines 316-318: the active selection follows the matched handle
CarryActiveIndex(active, index, new_len, new_active) ==
    IF active = Some(index) THEN Some(new_len) ELSE new_active

\* Mutant of UpdateExisting: the merge message is left as it was.
KeepStaleMergeMessage(repo, e, git_data) ==
    [repo EXCEPT
        !.repository_entry = [work_directory_id |-> e.work_directory_id, status |-> e.status]]

\* Mutant of UpdateExisting: the entity is rebuilt from the reported entry.
RebuildExisting(repo, e, git_data) ==
    [ worktree_id           |-> repo.worktree_id,
      repository_entry      |-> [work_directory_id |-> e.work_directory_id, status |-> e.status],
      git_repo              |-> repo.git_repo,
      merge_message         |-> IF git_data.git_repo = "Local" THEN git_data.merge_message
                                ELSE repo.merge_message,
      commit_message_buffer |-> None,
      askpass_delegates     |-> {},
      latest_askpass_id     |-> 0 ]

\* Mutant of UpdateExisting: the backend is exchanged for the other variant.
UpdateSwapsBackend(repo, e, git_data) ==
    [repo EXCEPT
        !.repository_entry = [work_directory_id |-> e.work_directory_id, status |-> e.status],
        !.merge_message = IF git_data.git_repo = "Local" THEN git_data.merge_message ELSE @,
        !.git_repo = IF @ = "Local" THEN "Remote" ELSE "Local"]

\* Mutant of UpdateExisting: the cached entry is left as it was.
KeepStaleEntry(repo, e, git_data) ==
    [repo EXCEPT
        !.merge_message = IF git_data.git_repo = "Local" THEN git_data.merge_message ELSE @]

\* lines 321-326: update the statuses and merge message but keep everything else
UpdateExisting(repo, e, git_data) ==
    [repo EXCEPT
        !.repository_entry = [work_directory_id |-> e.work_directory_id, status |-> e.status],
        !.merge_message = IF git_data.git_repo = "Local" THEN git_data.merge_message ELSE @]

\* lines 330-346: a new Repository entity
NewRepository(e, git_data) ==
    [ worktree_id           |-> e.worktree_id,
      repository_entry      |-> [work_directory_id |-> e.work_directory_id, status |-> e.status],
      git_repo              |-> git_data.git_repo,
      merge_message         |-> git_data.merge_message,
      commit_message_buffer |-> None,
      askpass_delegates     |-> {},
      latest_askpass_id     |-> 0 ]

\* lines 281-348: the loop body for one reported working directory
ReconcileEntry(st, repos, active, acc, e) ==
    LET git_data == GitData(st, e) IN
    IF git_data = None THEN acc
    ELSE
        LET existing == FindExisting(repos, acc.entities, EntryId(e)) IN
        IF existing # None
        THEN LET index == existing[1]
                 handle == repos[index + 1]
             IN  [ new_repositories |-> Append(acc.new_repositories, handle),
                   new_active_index |->
                       CarryActiveIndex(active, index, Len(acc.new_repositories),
                                        acc.new_active_index),
                   entities |-> [acc.entities EXCEPT
                                    ![handle] = UpdateExisting(@, e, git_data[1])],
                   next_handle |-> acc.next_handle ]
        ELSE [ new_repositories |-> Append(acc.new_repositories, acc.next_handle),
               new_active_index |-> acc.new_active_index,
               entities |-> acc.entities @@
                            (acc.next_handle :> NewRepository(e, git_data[1])),
               next_handle |-> acc.next_handle + 1 ]

\* lines 270-352: the loop over every reported working directory
RECURSIVE ReconcileLoop(_, _, _, _, _)
ReconcileLoop(st, repos, active, acc, snapshot) ==
    IF snapshot = <<>> THEN acc
    ELSE ReconcileLoop(st, repos, active,
                       ReconcileEntry(st, repos, active, acc, Head(snapshot)),
                       Tail(snapshot))

\* Mutant of DefaultActiveIndex: no repository is selected by default.
NoDefaultActiveIndex(new_active_index, new_repositories) == new_active_index

\* Mutant of DefaultActiveIndex: the last repository is selected by default.
DefaultLastIndex(new_active_index, new_repositories) ==
    IF new_active_index = None /\ Len(new_repositories) > 0
    THEN Some(Len(new_repositories) - 1)
    ELSE new_active_index

\* lines 354-356
DefaultActiveIndex(new_active_index, new_repositories) ==
    IF new_active_index = None /\ Len(new_repositories) > 0
    THEN Some(0)
    ELSE new_active_index

\* Mutant of EventFor: every pass announces a file system update.
EventAlwaysFileSystem(event) == "FileSystemUpdated"

\* lines 361-368
EventFor(event) ==
    IF event = "WorktreeUpdatedGitRepositories" THEN "GitStateUpdated"
    ELSE "FileSystemUpdated"

\* line 358: the old Vec is dropped, and with it the entities only it held
Retain(ents, new_repositories) == [h \in Range(new_repositories) |-> ents[h]]

\* lines 270-359: the result of one pass over `snapshot`
Reconcile(st, repos, active, ents, next, snapshot) ==
    LET acc == ReconcileLoop(st, repos, active,
                   [new_repositories |-> <<>>, new_active_index |-> None,
                    entities |-> ents, next_handle |-> next],
                   snapshot)
    IN  [ repositories |-> acc.new_repositories,
          active_index |-> DefaultActiveIndex(acc.new_active_index, acc.new_repositories),
          entities     |-> Retain(acc.entities, acc.new_repositories),
          next_handle  |-> acc.next_handle ]

\* lines 1126-1129: position of the entity in the list
Position(repos, handle) ==
    LET hits == {i \in 1..Len(repos) : repos[i] = handle}
    IN  IF hits = {} THEN None
        ELSE Some((CHOOSE i \in hits : \A j \in hits : i <= j) - 1)

NoPass == [ran |-> FALSE]

\* History only: what the pass that just ran started from.  event is the
\* WorktreeStoreEvent that triggered it, old_active is the
\* repository that was active before the pass (its handle, identity and index),
\* same tells that the snapshot is the one the previous pass saw, refreshed that
\* the pass changed the cached entry of a repository it kept, long_lived that
\* the repositories it kept held an open commit buffer and a registered askpass
\* delegate, queued which jobs were waiting for the worker.
PassSummary(event, snapshot, r) ==
    [ ran        |-> TRUE,
      event      |-> event,
      same       |-> (snapshot = worktree_store),
      old_active |-> IF active_index = None THEN None
                     ELSE Some([ handle |-> repositories[active_index[1] + 1],
                                 id     |-> RepositoryId(entities[repositories[active_index[1] + 1]]),
                                 index  |-> active_index[1] ]),
      refreshed  |-> \E h \in Range(repositories) \cap Range(r.repositories) :
                         r.entities[h].repository_entry # entities[h].repository_entry,
      long_lived |-> /\ \E h \in Range(repositories) \cap Range(r.repositories) :
                            entities[h].commit_message_buffer # None
                     /\ \E h \in Range(repositories) \cap Range(r.repositories) :
                            entities[h].askpass_delegates # {},
      queued     |-> Range(jobs \o job_rx) ]

\* GitStore::on_worktree_store_event: the worktree store changed (or reported
\* an event without a change) and the subscriber reconciles against it.
OnWorktreeStoreEvent(event, snapshot) ==
    \E r \in {Reconcile(state, repositories, active_index, entities, next_handle, snapshot)} :
    /\ r.next_handle <= MaxEntities + 1
    /\ next_handle' = r.next_handle
    /\ worktree_store' = snapshot
    /\ entities' = r.entities
    /\ repositories' = r.repositories
    /\ active_index' = r.active_index
    /\ emitted' = Some(EventFor(event))
    /\ last_pass' = PassSummary(event, snapshot, r)
    /\ UNCHANGED <<state, worker_vars, askpass_vars, call_vars>>

\* GitStore::active_repository
ActiveRepository == IF active_index = None THEN None
                    ELSE Some(repositories[active_index[1] + 1])

\* Repository::activate
Activate(handle) ==
    /\ Position(repositories, handle) # None
    /\ active_index' = Position(repositories, handle)
    /\ emitted' = Some("ActiveRepositoryChanged")
    /\ last_pass' = NoPass
    /\ UNCHANGED <<state, worktree_store, entities, next_handle, repositories>>
    /\ UNCHANGED <<worker_vars, askpass_vars, call_vars>>

(***************************************************************************)
(* The job queue and its worker                                            *)
(***************************************************************************)
RepoPaths == {"a.txt", "b.txt"}

\* No buffer is open for any path.
NoBuffers == [path \in RepoPaths |-> "closed"]

\* GitJobKey::WriteIndex
WriteIndex(path) == <<"WriteIndex", path>>

\* Mutant of Superseded: no job is ever skipped.
NeverSuperseded(key, rest, table) == FALSE

\* Mutant of Superseded: jobs without a key count as having the same key.
SupersededAlsoUnkeyed(key, rest, table) ==
    \E i \in 1..Len(rest) : table[rest[i]].key = key

\* Mutant of Superseded: a keyed job yields to any job with its key, whether
\* that job is still in the buffer or not.
SupersededByAnyJob(key, rest, table) ==
    /\ key # None
    /\ \E i \in 1..Len(table) : table[i].key = key

\* Mutant of Superseded: a keyed job yields to whatever is behind it.
SupersededByAnyBuffered(key, rest, table) ==
    /\ key # None
    /\ rest # <<>>

\* lines 462-466: another job still in the buffer carries the same key
Superseded(key, rest, table) ==
    /\ key # None
    /\ \E i \in 1..Len(rest) : table[rest[i]].key = key

\* Mutant of PopFront: the job behind the head is taken when there is one.
PopSecond(buffer) ==
    IF Len(buffer) = 1 THEN [job |-> Head(buffer), rest |-> <<>>]
    ELSE [job |-> buffer[2], rest |-> <<buffer[1]>> \o SubSeq(buffer, 3, Len(buffer))]

\* Mutant of PopFront: the newest job is taken.
PopBack(buffer) ==
    [job |-> buffer[Len(buffer)], rest |-> SubSeq(buffer, 1, Len(buffer) - 1)]

\* line 461: VecDeque::pop_front
PopFront(buffer) == [job |-> Head(buffer), rest |-> Tail(buffer)]

\* lines 461-470, repeated while the popped job is skipped (`continue`): the job
\* to run, the buffer it leaves, and the jobs dropped on the way.  Nothing can
\* be submitted in between: the loop does not await until it runs a job.
RECURSIVE NextJob(_, _)
NextJob(buffer, table) ==
    IF buffer = <<>> THEN [job |-> None, jobs |-> <<>>, skipped |-> <<>>]
    ELSE LET popped == PopFront(buffer) IN
         IF Superseded(table[popped.job].key, popped.rest, table)
         THEN LET next == NextJob(popped.rest, table)
              IN  [next EXCEPT !.skipped = <<popped.job>> \o @]
         ELSE [job |-> Some(popped.job), jobs |-> popped.rest, skipped |-> <<>>]

\* Mutant of PcAfterStart: the task is detached, the loop goes on at once.
PcNotAwaiting == "ready"

\* line 470: the worker awaits the task of the job it started
PcAfterStart == "awaiting_job"

RemoteOperations == {"fetch", "push", "pull"}

\* lines 1086-1100: the job is sent on the channel with the backend the
\* repository has now; the caller keeps the receiving end of the result.
SendKeyedJob(key, handle, verb, askpass_id) ==
    /\ Len(job_table) < MaxJobs
    /\ job_table' = Append(job_table,
                           [ key        |-> key,
                             repo       |-> handle,
                             git_repo   |-> entities[handle].git_repo,
                             verb       |-> verb,
                             askpass_id |-> askpass_id ])
    /\ job_rx' = Append(job_rx, Len(job_table) + 1)
    /\ result' = Append(result, "pending")
    /\ popped_at' = Append(popped_at, 0)
    /\ UNCHANGED <<channel_open, jobs, worker_pc, running, executed>>

\* Repository::set_index_text (the content written is the job's own)
SetIndexText(handle, path) ==
    /\ SendKeyedJob(Some(WriteIndex(path)), handle, "set_index_text", None)
    /\ UNCHANGED <<store_vars, askpass_vars, call_vars>>

\* Repository::commit, through Repository::send_job
Commit(handle) ==
    /\ SendKeyedJob(None, handle, "commit", None)
    /\ UNCHANGED <<store_vars, askpass_vars, call_vars>>

\* Mutant of PostInc: the counter is read and left as it is.
PostIncStuck(value) == [taken |-> value, next |-> value]

\* util::post_inc (lines 1609, 1660, 1724): the value before the increment is
\* the one taken
PostInc(value) == [taken |-> value, next |-> value + 1]

\* Repository::fetch, Repository::push, Repository::pull: lines 1609, 1660, 1724
\* take the askpass id, then the job is sent.
RemoteOperation(handle, verb) ==
    /\ entities[handle].latest_askpass_id < MaxRemoteOps
    /\ Cardinality({j \in 1..Len(job_table) : job_table[j].verb \in RemoteOperations})
          < MaxRemoteOps
    /\ SendKeyedJob(None, handle, verb, Some(PostInc(entities[handle].latest_askpass_id).taken))
    /\ entities' = [entities EXCEPT ![handle].latest_askpass_id = PostInc(@).next]
    /\ UNCHANGED <<state, worktree_store, next_handle, repositories, active_index,
                   emitted, last_pass, askpass_vars, call_vars>>

\* lines 1630-1637, 1690-1702, 1747-1756: the Fetch, Push or Pull request a
\* remote-backend job sends, addressed by the fields of its GitRepo::Remote
OperationRequest(ents, job) ==
    [ verb              |-> job.verb,
      worktree_id       |-> ents[job.repo].worktree_id,
      work_directory_id |-> ents[job.repo].repository_entry.work_directory_id,
      askpass_id        |-> job.askpass_id[1] ]

\* Mutant of RegisterAskpass: no delegate is registered when the job starts.
RegisterNothing(ents, job) == ents

\* lines 1625, 1685, 1742: a remote-backend job registers its askpass delegate
\* when it starts; every other job leaves the map alone.
RegisterAskpass(ents, job) ==
    IF job.verb \in RemoteOperations /\ job.git_repo = "Remote"
    THEN [ents EXCEPT ![job.repo].askpass_delegates = @ \cup {job.askpass_id[1]}]
    ELSE ents

\* lines 456-470: one turn of the worker loop, from its wake-up to the await of
\* the job it starts: drain the channel, drop the superseded jobs, start the job.
WorkerRun ==
    /\ worker_pc \in {"ready", "awaiting_rx"}
    /\ jobs \o job_rx # <<>>
    /\ \E next \in {NextJob(jobs \o job_rx, job_table)} :
          /\ job_rx' = <<>>
          /\ jobs' = next.jobs
          /\ result' = [j \in 1..Len(result) |->
                           IF j \in Range(next.skipped) /\ result[j] = "pending"
                           THEN "canceled" ELSE result[j]]
          /\ popped_at' = [j \in 1..Len(popped_at) |->
                              IF j \in Range(next.skipped) \cup Range(next.job)
                              THEN Len(job_table) ELSE popped_at[j]]
          /\ running' = running \cup Range(next.job)
          /\ executed' = executed \o next.job
          /\ worker_pc' = IF next.job = None THEN "awaiting_rx" ELSE PcAfterStart
          /\ entities' = IF next.job = None THEN entities
                         ELSE RegisterAskpass(entities, job_table[next.job[1]])
    /\ UNCHANGED <<job_table, channel_open, state, worktree_store, next_handle, repositories,
                   active_index, emitted, last_pass, askpass_vars, call_vars>>

\* lines 471-472: nothing is buffered or queued, the worker awaits job_rx.next()
WorkerAwaitRx ==
    /\ worker_pc = "ready"
    /\ jobs \o job_rx = <<>>
    /\ worker_pc' = "awaiting_rx"
    /\ UNCHANGED <<job_table, job_rx, channel_open, jobs, running, executed, result, popped_at>>
    /\ UNCHANGED <<store_vars, askpass_vars, call_vars>>

\* Mutant of WorkerMayExit: the worker exits as soon as it has nothing to do.
ExitWhenIdle(buffer, rx, open) == buffer \o rx = <<>>

\* lines 457-474: try_next has drained the channel, pop_front found the buffer
\* empty, and job_rx.next() yields None: the channel is empty and every
\* sending end is gone
WorkerMayExit(buffer, rx, open) == buffer \o rx = <<>> /\ ~open

\* lines 473-475: `break`, the worker task ends
WorkerExit ==
    /\ worker_pc \in {"ready", "awaiting_rx"}
    /\ WorkerMayExit(jobs, job_rx, channel_open)
    /\ worker_pc' = "exited"
    /\ UNCHANGED <<job_table, job_rx, channel_open, jobs, running, executed, result, popped_at>>
    /\ UNCHANGED <<store_vars, askpass_vars, call_vars>>

\* The GitStore and the Repository entities are released: update_sender
\* (line 52) and every job_sender (line 84) are dropped, the channel closes.
DropSenders ==
    /\ channel_open
    /\ channel_open' = FALSE
    /\ UNCHANGED <<job_table, job_rx, jobs, worker_pc, running, executed, result, popped_at>>
    /\ UNCHANGED <<store_vars, askpass_vars, call_vars>>

\* lines 1626-1629, 1686-1689, 1743-1746: the deferred cleanup of a
\* remote-backend job
DeferredCleanup(ents, job) ==
    IF job.verb \in RemoteOperations /\ job.git_repo = "Remote"
    THEN [ents EXCEPT ![job.repo].askpass_delegates = @ \ {job.askpass_id[1]}]
    ELSE ents

\* lines 1628, 1688, 1745: debug_assert!(askpass_delegate.is_some())
CleanupAssertion(ents, job) ==
    (job.verb \in RemoteOperations /\ job.git_repo = "Remote")
        => job.askpass_id[1] \in ents[job.repo].askpass_delegates

\* Mutant of SendResult: a failure is kept from the caller.
SendResultSwallowsFailure(res, job, outcome) ==
    IF res[job] = "dropped" \/ outcome = "err" THEN res ELSE [res EXCEPT ![job] = outcome]

\* line 1095: result_tx.send(result).ok() -- the result goes to the receiver if
\* the caller still holds it and is discarded otherwise
SendResult(res, job, outcome) ==
    IF res[job] = "dropped" THEN res ELSE [res EXCEPT ![job] = outcome]

\* Mutant of PcAfterSend: a failed send is unwrapped and the task panics.
PcAfterSendUnwrap(res, job) == IF res[job] = "dropped" THEN "panicked" ELSE "ready"

\* lines 1095-1096: the failure of the send is ignored, the task ends and the
\* worker's await of line 470 returns
PcAfterSend(res, job) == "ready"

\* The caller drops the oneshot receiver send_keyed_job gave it.
DropReceiver(job) ==
    /\ job \in 1..Len(job_table)
    /\ result[job] = "pending"
    /\ result' = [result EXCEPT ![job] = "dropped"]
    /\ UNCHANGED <<job_table, job_rx, channel_open, jobs, worker_pc, running, executed,
                   popped_at>>
    /\ UNCHANGED <<store_vars, askpass_vars, call_vars>>

\* lines 1093-1096: the task of the running job completes, with the backend's
\* or the peer's outcome, and sends it on the result channel; the worker's
\* await of line 470 returns.
JobCompletes(job, outcome) ==
    /\ job \in running
    /\ running' = running \ {job}
    /\ result' = SendResult(result, job, outcome)
    /\ worker_pc' = PcAfterSend(result, job)
    /\ entities' = DeferredCleanup(entities, job_table[job])
    /\ assert_failed' = (assert_failed \/ ~CleanupAssertion(entities, job_table[job]))
    /\ UNCHANGED <<job_table, job_rx, channel_open, jobs, executed, popped_at>>
    /\ UNCHANGED <<state, worktree_store, next_handle, repositories, active_index,
                   emitted, last_pass, asks, reply>>

\* The task of a job whose closure keeps nothing but its result.
JobFinish(job, outcome) ==
    /\ JobCompletes(job, outcome)
    /\ UNCHANGED call_vars

(***************************************************************************)
(* The askpass relay                                                       *)
(***************************************************************************)
AskpassIds == 0..(MaxRemoteOps - 1)

\* Mutant of RepositoryForRequest: an unknown identity falls back to the first
\* repository of the list.
FirstRepositoryForRequest(repos, ents, worktree_id, work_directory_id) ==
    IF repos = <<>> THEN None ELSE Some(repos[1])

\* GitStore::repository_for_request
RepositoryForRequest(repos, ents, worktree_id, work_directory_id) ==
    LET hits == {i \in 1..Len(repos) :
                    /\ ents[repos[i]].worktree_id = worktree_id
                    /\ ents[repos[i]].repository_entry.work_directory_id = work_directory_id}
    IN  IF hits = {} THEN None
        ELSE Some(repos[CHOOSE i \in hits : \A j \in hits : i <= j])

\* util::debug_panic! (line 943): the violation is logged as a defect and the
\* handler goes on to return the error.
DebugPanicReturns == TRUE

\* Mutant of TakeDelegate: the delegates of every repository are in one map.
TakeDelegateShared(delegates, askpass_id) ==
    [ found     |-> \E h \in DOMAIN entities : askpass_id \in entities[h].askpass_delegates,
      delegates |-> delegates \ {askpass_id} ]

\* Mutant of TakeDelegate: a delegate is found for every id.
TakeDelegateAlwaysFound(delegates, askpass_id) ==
    [found |-> TRUE, delegates |-> delegates \ {askpass_id}]

\* lines 942-945: the delegate is taken out of the map, if it is there
TakeDelegate(delegates, askpass_id) ==
    IF askpass_id \in delegates
    THEN [found |-> TRUE, delegates |-> delegates \ {askpass_id}]
    ELSE [found |-> FALSE, delegates |-> delegates]

\* GitStore::handle_askpass up to its await of ask_password (lines 936-947)
HandleAskpass(worktree_id, work_directory_id, askpass_id) ==
    LET repository == RepositoryForRequest(repositories, entities,
                                           worktree_id, work_directory_id)
    IN
    /\ \/ /\ repository = None
          /\ reply' = Some("missing repository handle")
          /\ UNCHANGED <<entities, asks>>
       \/ /\ repository # None
          /\ ~TakeDelegate(entities[repository[1]].askpass_delegates, askpass_id).found
          /\ DebugPanicReturns
          /\ reply' = Some("no askpass found")
          /\ UNCHANGED <<entities, asks>>
       \/ /\ repository # None
          /\ TakeDelegate(entities[repository[1]].askpass_delegates, askpass_id).found
          /\ entities' = [entities EXCEPT ![repository[1]].askpass_delegates =
                              TakeDelegate(@, askpass_id).delegates]
          /\ asks' = asks \cup {[repo |-> repository[1], askpass_id |-> askpass_id]}
          /\ UNCHANGED reply
    /\ UNCHANGED <<state, worktree_store, next_handle, repositories, active_index,
                   emitted, last_pass, worker_vars, assert_failed, call_vars>>

\* lines 947-953: ask_password returns; on an answer the delegate goes back
\* into the map, on a failure `?` returns the error right away.
AskPasswordReturns(ask, answered) ==
    /\ ask \in asks
    /\ asks' = asks \ {ask}
    /\ \/ /\ answered
          /\ entities' = [entities EXCEPT ![ask.repo].askpass_delegates =
                              @ \cup {ask.askpass_id}]
          /\ reply' = Some("response")
       \/ /\ ~answered
          /\ reply' = Some("ask_password failed")
          /\ UNCHANGED entities
    /\ UNCHANGED <<state, worktree_store, next_handle, repositories, active_index,
                   emitted, last_pass, worker_vars, assert_failed, call_vars>>

\* make_remote_delegate (lines 1038-1044): the AskPassRequest the host sends
\* when its git process prompts, built from the fields of the Fetch, Push or
\* Pull request that handle_fetch (lines 541-548), handle_push and handle_pull
\* passed on
RemoteDelegateRequest(request) ==
    [ worktree_id       |-> request.worktree_id,
      work_directory_id |-> request.work_directory_id,
      askpass_id        |-> request.askpass_id ]

\* The host of a remote-backend operation whose request is outstanding
\* prompts: its delegate sends the AskPassRequest and the client handles it.
HostPrompts(job) ==
    /\ job \in running
    /\ job_table[job].verb \in RemoteOperations
    /\ job_table[job].git_repo = "Remote"
    /\ LET request == RemoteDelegateRequest(OperationRequest(entities, job_table[job]))
       IN HandleAskpass(request.worktree_id, request.work_directory_id,
                        request.askpass_id)

(***************************************************************************)
(* stage_entries and unstage_entries                                       *)
(***************************************************************************)
MaxStageCalls == 1

\* The path lists callers pass.
EntryLists == {<<>>, <<"a.txt">>, <<"a.txt", "b.txt">>}

\* A buffer is "closed" (get_by_path finds none), "open" with a file that exists
\* on disk, or "new": open, with no file or a file that is not on disk.  The
\* buffers are those of the worktree of the first repository; no buffer is open
\* in the other worktree.
\* The buffer stores the calls are made against: both files open, the second
\* file open but not on disk, only the second file open.
BufferStores ==
    { [path \in RepoPaths |-> "open"],
      [path \in RepoPaths |-> IF path = "a.txt" THEN "open" ELSE "new"],
      [path \in RepoPaths |-> IF path = "a.txt" THEN "closed" ELSE "open"] }
BuffersOf(handle, store) ==
    IF entities[handle].worktree_id = 1 THEN store ELSE NoBuffers

\* Mutant of EntriesIsEmpty: the empty list takes the path of the others.
NeverShortCircuits(entries) == FALSE

\* lines 1384, 1455: entries.is_empty()
EntriesIsEmpty(entries) == entries = <<>>

\* lines 1389-1408, 1460-1479: a save is started for every path of the call
\* whose buffer is open on a file that exists on disk
SaveFutures(handle, entries) ==
    LET NeedsSave(path) == BuffersOf(handle, buffers)[path] = "open"
    IN  SelectSeq(entries, NeedsSave)

\* Mutant of SavesAwaited: the saves are waited for, whatever they return.
SavesSettled(saves) == \A k \in 1..Len(saves) : saves[k] # "saving"

\* Mutant of SavesAwaited: the saves are started and not waited for.
SavesNotAwaited(saves) == TRUE

\* lines 1411-1413, 1482-1484: every save future has been awaited with success
SavesAwaited(saves) == \A k \in 1..Len(saves) : saves[k] = "saved"

\* lines 1411-1413: the first save the task is still waiting for, or that failed
FirstUnsaved(saves) ==
    LET rest == {k \in 1..Len(saves) : saves[k] # "saved"}
    IN  IF rest = {} THEN None ELSE Some(CHOOSE k \in rest : \A l \in rest : k <= l)

StageVerb(unstage) == IF unstage THEN "unstage" ELSE "stage"

\* lines 1384-1410, 1455-1481: the synchronous part of the call.  `called_at`
\* is history: how many jobs had been submitted when the call was made.
NewStageCall(handle, entries, unstage) ==
    IF EntriesIsEmpty(entries)
    THEN [ repo |-> handle, unstage |-> unstage, entries |-> entries,
           save_futures |-> <<>>, saves |-> <<>>, pc |-> "returned_ok", job |-> None,
           called_at |-> Len(job_table) ]
    ELSE LET save_futures == SaveFutures(handle, entries) IN
         [ repo |-> handle, unstage |-> unstage, entries |-> entries,
           save_futures |-> save_futures,
           saves |-> [k \in 1..Len(save_futures) |-> "saving"],
           pc |-> "awaiting_saves", job |-> None,
           called_at |-> Len(job_table) ]

\* Repository::stage_entries, Repository::unstage_entries, called directly
StageEntries(handle, entries, unstage) ==
    /\ Len(stage_calls) < MaxStageCalls
    /\ stage_calls' = Append(stage_calls, NewStageCall(handle, entries, unstage))
    /\ UNCHANGED <<store_vars, worker_vars, askpass_vars>>
    /\ UNCHANGED <<buffers, requests, diffs, open_calls, next_buffer, hunk_writes, git_inits>>

\* GitStore::handle_stage, GitStore::handle_unstage up to the await of the call
HandleStage(worktree_id, work_directory_id, entries, unstage) ==
    LET repository_handle == RepositoryForRequest(repositories, entities,
                                                  worktree_id, work_directory_id)
    IN
    /\ Len(requests) < MaxStageCalls
    /\ Len(stage_calls) < MaxStageCalls
    /\ IF repository_handle = None
       THEN /\ requests' = Append(requests,
                               [ worktree_id |-> worktree_id,
                                 work_directory_id |-> work_directory_id,
                                 reply |-> Some("missing repository handle"),
                                 call |-> None ])
            /\ UNCHANGED stage_calls
       ELSE /\ requests' = Append(requests,
                               [ worktree_id |-> worktree_id,
                                 work_directory_id |-> work_directory_id,
                                 reply |-> None,
                                 call |-> Some(Len(stage_calls) + 1) ])
            /\ stage_calls' = Append(stage_calls,
                                     NewStageCall(repository_handle[1], entries, unstage))
    /\ UNCHANGED <<store_vars, worker_vars, askpass_vars>>
    /\ UNCHANGED <<buffers, diffs, open_calls, next_buffer, hunk_writes, git_inits>>

\* BufferStore::save_buffer: one of the saves a call started completes
SaveBufferCompletes(c, k, saved) ==
    /\ stage_calls[c].saves[k] = "saving"
    /\ stage_calls' = [stage_calls EXCEPT ![c].saves[k] = IF saved THEN "saved" ELSE "failed"]
    /\ UNCHANGED <<store_vars, worker_vars, askpass_vars>>
    /\ UNCHANGED <<buffers, requests, diffs, open_calls, next_buffer, hunk_writes, git_inits>>

\* lines 1412, 1483: `save_future.await?` on a save that failed
StageSaveFailed(c) ==
    /\ stage_calls[c].pc = "awaiting_saves"
    /\ ~SavesAwaited(stage_calls[c].saves)
    /\ FirstUnsaved(stage_calls[c].saves) # None
    /\ stage_calls[c].saves[FirstUnsaved(stage_calls[c].saves)[1]] = "failed"
    /\ stage_calls' = [stage_calls EXCEPT ![c].pc = "returned_err"]
    /\ UNCHANGED <<store_vars, worker_vars, askpass_vars>>
    /\ UNCHANGED <<buffers, requests, diffs, open_calls, next_buffer, hunk_writes, git_inits>>

\* lines 1411-1444, 1482-1515: the saves are done, the environment is resolved
\* and the job is sent; the call then awaits the job's result.
StageSubmit(c) ==
    /\ stage_calls[c].pc = "awaiting_saves"
    /\ SavesAwaited(stage_calls[c].saves)
    /\ SendKeyedJob(None, stage_calls[c].repo, StageVerb(stage_calls[c].unstage), None)
    /\ stage_calls' = [stage_calls EXCEPT ![c].pc = "awaiting_job",
                                          ![c].job = Some(Len(job_table) + 1)]
    /\ UNCHANGED <<store_vars, askpass_vars>>
    /\ UNCHANGED <<buffers, requests, diffs, open_calls, next_buffer, hunk_writes, git_inits>>

\* lines 1444-1446, 1515-1517: what the call has returned, if it has
StageResult(c) ==
    LET call == stage_calls[c] IN
    IF call.pc = "returned_ok" THEN Some("ok")
    ELSE IF call.pc = "returned_err" THEN Some("err")
    ELSE IF call.pc = "awaiting_job" /\ result[call.job[1]] \in {"ok", "err", "canceled"}
         THEN Some(IF result[call.job[1]] = "ok" THEN "ok" ELSE "err")
    ELSE None

\* lines 659-664, 685-691: what the handler answers, if it has
StageReply(r) ==
    IF requests[r].call = None THEN requests[r].reply
    ELSE IF StageResult(requests[r].call[1]) = None THEN None
    ELSE IF StageResult(requests[r].call[1]) = Some("ok") THEN Some("Ack")
    ELSE Some("stage failed")

(***************************************************************************)
(* Index writes of staged and unstaged hunks                               *)
(***************************************************************************)
BufferDiffEvents == {"HunksStagedOrUnstaged", "DiffChanged"}

\* Mutant of Received: a canceled result channel is taken for a failed write.
ReceivedCanceledAsFailure(res) == Some(IF res = "canceled" THEN "err" ELSE res)

\* line 401: recv.await.ok() -- the result the job sent, or nothing when the
\* job was dropped and its result channel canceled
Received(res) == IF res = "canceled" THEN None ELSE Some(res)

\* lines 401-403: `if let Some(result)` and `if let Err(error) = result`
IsWriteError(received) == received # None /\ received[1] = "err"

\* GitStore::on_buffer_diff_event up to the detached task: for hunks staged
\* or unstaged in the diff of a buffer that belongs to a repository, the index
\* text is written by a keyed job and a task is left waiting for its result.
\* The diff holds the hunks as pending from the moment they are staged.
\* `target` is what repository_and_path_for_buffer_id finds for the buffer.
OnBufferDiffEvent(event, target) ==
    IF event = "HunksStagedOrUnstaged" /\ target # None
    THEN /\ SendKeyedJob(Some(WriteIndex(target[1][2])), target[1][1],
                         "set_index_text", None)
         /\ hunk_writes' =
               [ watchers |-> Append(hunk_writes.watchers,
                                     [ job      |-> Len(job_table) + 1,
                                       diff     |-> target[1],
                                       pc       |-> "waiting",
                                       notified |-> FALSE ]),
                 pending  |-> hunk_writes.pending \cup {target[1]} ]
         /\ UNCHANGED <<store_vars, askpass_vars>>
         /\ UNCHANGED <<buffers, stage_calls, requests, diffs, open_calls, next_buffer,
                        git_inits>>
    ELSE UNCHANGED vars

\* lines 400-411: the detached task receives what the result channel holds;
\* on a failure of the write it clears the pending hunks of the diff and
\* emits GitEvent::IndexWriteError.
IndexWriteWatched(w) ==
    LET watcher  == hunk_writes.watchers[w]
        received == Received(result[watcher.job])
    IN
    /\ watcher.pc = "waiting"
    /\ result[watcher.job] \in {"ok", "err", "canceled"}
    /\ hunk_writes' =
          [ watchers |-> [hunk_writes.watchers EXCEPT
                              ![w].pc = "done",
                              ![w].notified = IsWriteError(received)],
            pending  |-> IF IsWriteError(received)
                         THEN hunk_writes.pending \ {watcher.diff}
                         ELSE hunk_writes.pending ]
    /\ emitted' = IF IsWriteError(received) THEN Some("IndexWriteError") ELSE None
    /\ UNCHANGED <<state, worktree_store, entities, next_handle, repositories,
                   active_index, last_pass>>
    /\ UNCHANGED <<worker_vars, askpass_vars>>
    /\ UNCHANGED <<buffers, stage_calls, requests, diffs, open_calls, next_buffer,
                   git_inits>>

(***************************************************************************)
(* git_init                                                                *)
(***************************************************************************)
MaxGitInits == 1

\* lines 488-515: a local store runs fs.git_init in a task of its own on the
\* background executor; an ssh or remote store sends GitInit upstream
GitInitTask(st) == IF st = "Local" THEN "fs" ELSE "upstream"

\* lines 489-493, 505-515: cx.background_executor().spawn(..) -- the task
\* starts at once, no GitJob is made and nothing is sent to the worker
SpawnGitInit(via) ==
    /\ Len(git_inits) < MaxGitInits
    /\ git_inits' = Append(git_inits,
                           [via |-> via, runs |-> GitInitTask(state), pc |-> "running"])
    /\ UNCHANGED <<store_vars, worker_vars, askpass_vars>>
    /\ UNCHANGED <<buffers, stage_calls, requests, diffs, open_calls, next_buffer,
                   hunk_writes>>

\* GitStore::git_init, called directly
GitInit == SpawnGitInit("call")

\* GitStore::handle_git_init: the inbound GitInit request calls git_init and
\* awaits its task before it answers Ack
HandleGitInit == SpawnGitInit("request")

\* fs.git_init returns, or the upstream answers
GitInitCompletes(i, outcome) ==
    /\ git_inits[i].pc = "running"
    /\ git_inits' = [git_inits EXCEPT ![i].pc = outcome]
    /\ UNCHANGED <<store_vars, worker_vars, askpass_vars>>
    /\ UNCHANGED <<buffers, stage_calls, requests, diffs, open_calls, next_buffer,
                   hunk_writes>>

(***************************************************************************)
(* diff                                                                    *)
(***************************************************************************)
MaxDiffs == 2

\* handle_git_diff: const ONE_MB
ONE_MB == 1000000

\* A diff text: `count` characters of `width` bytes each in UTF-8.
DiffText(width, count) == [width |-> width, count |-> count]

\* The diffs the local backend produces here: a short one, one character
\* below, at and above the limit, and texts of three-byte characters whose
\* byte length is above the limit while their character count is or is not.
BackendDiffs ==
    { DiffText(1, 12), DiffText(1, ONE_MB - 1), DiffText(1, ONE_MB), DiffText(1, ONE_MB + 1),
      DiffText(3, 333334), DiffText(3, ONE_MB + 1) }

\* Result<String>
DiffOk(text) == [ok |-> TRUE, diff |-> text, error |-> ""]
DiffErr(message) == [ok |-> FALSE, diff |-> DiffText(1, 0), error |-> message]

\* String::len: the length in bytes
StrLen(text) == text.width * text.count

\* line 1000: diff.chars().take(n).collect()
TakeChars(text, n) ==
    DiffText(text.width, IF text.count < n THEN text.count ELSE n)

\* lines 998-1001
TruncateDiff(text) == IF StrLen(text) > ONE_MB THEN TakeChars(text, ONE_MB) ELSE text

\* lines 1873-1904: what the job's closure returns.  The local backend returns
\* its diff; the remote one returns the diff of the GitDiffResponse, which the
\* peer's handle_git_diff built from the diff of its own repository.
DiffJobResult(job, text) ==
    IF job.git_repo = "Local" THEN text ELSE TruncateDiff(text)

\* Repository::diff, called directly
Diff(handle) ==
    /\ Len(diffs) < MaxDiffs
    /\ SendKeyedJob(None, handle, "diff", None)
    /\ diffs' = Append(diffs, [ job |-> Some(Len(job_table) + 1), rpc |-> FALSE,
                                underlying |-> None, returned |-> None,
                                response |-> None ])
    /\ UNCHANGED <<store_vars, askpass_vars>>
    /\ UNCHANGED <<buffers, stage_calls, requests, open_calls, next_buffer, hunk_writes, git_inits>>

\* GitStore::handle_git_diff up to the await of the job's result
HandleGitDiff(worktree_id, work_directory_id) ==
    LET repository_handle == RepositoryForRequest(repositories, entities,
                                                  worktree_id, work_directory_id)
    IN
    /\ Len(diffs) < MaxDiffs
    /\ IF repository_handle = None
       THEN /\ diffs' = Append(diffs, [ job |-> None, rpc |-> TRUE,
                                        underlying |-> None, returned |-> None,
                                        response |-> Some(DiffErr("missing repository handle")) ])
            /\ UNCHANGED worker_vars
       ELSE /\ SendKeyedJob(None, repository_handle[1], "diff", None)
            /\ diffs' = Append(diffs, [ job |-> Some(Len(job_table) + 1), rpc |-> TRUE,
                                        underlying |-> None, returned |-> None,
                                        response |-> None ])
    /\ UNCHANGED <<store_vars, askpass_vars>>
    /\ UNCHANGED <<buffers, stage_calls, requests, open_calls, next_buffer, hunk_writes, git_inits>>

\* The diff job's task completes with the diff `text` of the repository, or
\* with an error; the result is sent to the caller.
DiffJobFinish(c, text, outcome) ==
    /\ diffs[c].job # None
    /\ JobCompletes(diffs[c].job[1], outcome)
    /\ diffs' = [diffs EXCEPT
                    ![c].underlying = IF outcome = "ok" THEN Some(text) ELSE None,
                    ![c].returned = IF outcome = "ok"
                                    THEN Some(DiffOk(DiffJobResult(job_table[diffs[c].job[1]],
                                                                   text)))
                                    ELSE Some(DiffErr("diff failed"))]
    /\ UNCHANGED <<buffers, stage_calls, requests, open_calls, next_buffer, hunk_writes, git_inits>>

\* lines 994-1003: handle_git_diff has the job's result and answers
HandleGitDiffReturns(c) ==
    /\ diffs[c].rpc
    /\ diffs[c].returned # None
    /\ diffs[c].response = None
    /\ diffs' = [diffs EXCEPT
                    ![c].response = IF diffs[c].returned[1].ok
                                    THEN Some(DiffOk(TruncateDiff(diffs[c].returned[1].diff)))
                                    ELSE diffs[c].returned]
    /\ UNCHANGED <<store_vars, worker_vars, askpass_vars>>
    /\ UNCHANGED <<buffers, stage_calls, requests, open_calls, next_buffer, hunk_writes, git_inits>>

(***************************************************************************)
(* open_commit_buffer                                                      *)
(***************************************************************************)
MaxOpenCalls == 3

\* lines 1201-1203: the cached buffer, if there is one
CachedCommitBuffer(handle) == entities[handle].commit_message_buffer

\* The buffers the awaited step of a call can yield.  create_buffer of the
\* local path makes a new buffer each time; on the remote path the peer names
\* the buffer, a new one or one it named before for this repository.
OpenedBuffers(handle) ==
    IF entities[handle].git_repo = "Local" THEN {next_buffer}
    ELSE {next_buffer} \cup
         {open_calls[c].buffer[1] : c \in {d \in 1..Len(open_calls) :
                                              /\ open_calls[d].repo = handle
                                              /\ open_calls[d].buffer # None}}

\* Repository::open_commit_buffer up to its first await
OpenCommitBuffer(handle, languages) ==
    /\ Len(open_calls) < MaxOpenCalls
    /\ open_calls' = Append(open_calls,
          IF CachedCommitBuffer(handle) # None
          THEN [ repo |-> handle, languages |-> languages, pc |-> "returned",
                 buffer |-> CachedCommitBuffer(handle),
                 returned |-> CachedCommitBuffer(handle) ]
          ELSE [ repo |-> handle, languages |-> languages, pc |-> "opening",
                 buffer |-> None, returned |-> None ])
    /\ UNCHANGED <<store_vars, worker_vars, askpass_vars>>
    /\ UNCHANGED <<buffers, stage_calls, requests, diffs, next_buffer, hunk_writes, git_inits>>

\* lines 1261-1264, 1233-1236: the buffer is cached and returned
StoreCommitBuffer(c, buffer) ==
    /\ entities' = [entities EXCEPT ![open_calls[c].repo].commit_message_buffer = Some(buffer)]
    /\ open_calls' = [open_calls EXCEPT ![c].pc = "returned",
                                        ![c].buffer = Some(buffer),
                                        ![c].returned = Some(buffer)]

\* lines 1214-1225, 1250-1252: the request to the peer and the wait for its
\* buffer, or create_buffer, complete; a call without a language registry
\* caches the buffer at once.
CommitBufferOpened(c, buffer, opened) ==
    /\ open_calls[c].pc = "opening"
    /\ buffer \in OpenedBuffers(open_calls[c].repo)
    /\ IF ~opened
       THEN /\ open_calls' = [open_calls EXCEPT ![c].pc = "failed"]
            /\ UNCHANGED <<entities, next_buffer>>
       ELSE /\ next_buffer' = IF buffer = next_buffer THEN next_buffer + 1 ELSE next_buffer
            /\ IF open_calls[c].languages
               THEN /\ open_calls' = [open_calls EXCEPT ![c].pc = "awaiting_language",
                                                        ![c].buffer = Some(buffer)]
                    /\ UNCHANGED entities
               ELSE StoreCommitBuffer(c, buffer)
    /\ UNCHANGED <<state, worktree_store, next_handle, repositories, active_index,
                   emitted, last_pass>>
    /\ UNCHANGED <<worker_vars, askpass_vars, buffers, stage_calls, requests, diffs, hunk_writes, git_inits>>

\* lines 1226-1236, 1254-1264: language_for_name("Git Commit") completes
CommitLanguageLoaded(c, loaded) ==
    /\ open_calls[c].pc = "awaiting_language"
    /\ IF loaded
       THEN StoreCommitBuffer(c, open_calls[c].buffer[1])
       ELSE /\ open_calls' = [open_calls EXCEPT ![c].pc = "failed"]
            /\ UNCHANGED entities
    /\ UNCHANGED <<state, worktree_store, next_handle, repositories, active_index,
                   emitted, last_pass>>
    /\ UNCHANGED <<worker_vars, askpass_vars, buffers, stage_calls, requests, diffs,
                   next_buffer, hunk_writes, git_inits>>

(***************************************************************************)
(* Specifications                                                          *)
(***************************************************************************)
\* GitStore::spawn_git_worker: the channel and the buffer start empty
InitWorker ==
    /\ job_table = <<>>
    /\ job_rx = <<>>
    /\ channel_open = TRUE
    /\ jobs = <<>>
    /\ worker_pc = "ready"
    /\ running = {}
    /\ executed = <<>>
    /\ result = <<>>
    /\ popped_at = <<>>
    /\ asks = {}
    /\ reply = None
    /\ assert_failed = FALSE
    /\ buffers = NoBuffers
    /\ stage_calls = <<>>
    /\ requests = <<>>
    /\ diffs = <<>>
    /\ open_calls = <<>>
    /\ next_buffer = 1
    /\ hunk_writes = NoHunkWrites
    /\ git_inits = <<>>

\* GitStore::local, GitStore::remote: no repository is tracked yet
Init ==
    /\ state \in {"Local", "Remote"}
    /\ worktree_store = <<>>
    /\ entities = <<>>
    /\ next_handle = 1
    /\ repositories = <<>>
    /\ active_index = None
    /\ emitted = None
    /\ last_pass = NoPass
    /\ InitWorker

NextReconcile ==
    \/ \E event \in WorktreeStoreEvents, snapshot \in Snapshots :
          OnWorktreeStoreEvent(event, snapshot)
    \/ \E handle \in 1..(next_handle - 1) : Activate(handle)

\* The reconciliation of the repository list against the worktrees.
SpecReconcile == Init /\ [][NextReconcile]_vars

\* A store opened over ssh whose first pass found a local working directory
\* and a remote one: handle 1 has the Local backend, handle 2 the Remote one.
TwoRepositories ==
    << [worktree_id |-> 1, work_directory_id |-> 11, status |-> "clean", merge_message |-> None],
       [worktree_id |-> 2, work_directory_id |-> 21, status |-> "clean", merge_message |-> None] >>

InitTracked ==
    /\ state = "Ssh"
    /\ worktree_store = TwoRepositories
    /\ \E r \in {Reconcile("Ssh", <<>>, None, <<>>, 1, TwoRepositories)} :
          /\ entities = r.entities
          /\ next_handle = r.next_handle
          /\ repositories = r.repositories
          /\ active_index = r.active_index
    /\ emitted = Some("FileSystemUpdated")
    /\ last_pass = NoPass
    /\ InitWorker

Next ==
    \/ \E handle \in Range(repositories), path \in RepoPaths : SetIndexText(handle, path)
    \/ \E handle \in Range(repositories) : Commit(handle)
    \/ WorkerRun
    \/ WorkerAwaitRx
    \/ \E job \in running, outcome \in {"ok", "err"} : JobFinish(job, outcome)

\* The job queue: submissions of keyed and unkeyed jobs against the worker.
Spec == InitTracked /\ [][Next]_vars

NextAskPass ==
    \/ \E handle \in Range(repositories), verb \in RemoteOperations :
          RemoteOperation(handle, verb)
    \/ WorkerRun
    \/ WorkerAwaitRx
    \/ \E job \in running, outcome \in {"ok", "err"} : JobFinish(job, outcome)
    \/ \E id \in Identities, askpass_id \in AskpassIds :
          HandleAskpass(id[1], id[2], askpass_id)
    \/ \E ask \in asks, answered \in BOOLEAN : AskPasswordReturns(ask, answered)

\* Remote operations against the askpass relay.
SpecAskPass == InitTracked /\ [][NextAskPass]_vars

NextFetch ==
    \/ \E handle \in Range(repositories) : RemoteOperation(handle, "fetch")
    \/ WorkerRun
    \/ WorkerAwaitRx
    \/ \E job \in running, outcome \in {"ok", "err"} : JobFinish(job, outcome)
    \/ \E id \in Identities, askpass_id \in AskpassIds :
          HandleAskpass(id[1], id[2], askpass_id)
    \/ \E ask \in asks, answered \in BOOLEAN : AskPasswordReturns(ask, answered)

\* Fetches of the two repositories against incoming AskPassRequests.
SpecFetch == InitTracked /\ [][NextFetch]_vars

NextPrompt ==
    \/ \E handle \in Range(repositories) : RemoteOperation(handle, "fetch")
    \/ WorkerRun
    \/ WorkerAwaitRx
    \/ \E job \in running, outcome \in {"ok", "err"} : JobFinish(job, outcome)
    \/ \E job \in running : HostPrompts(job)
    \/ \E ask \in asks, answered \in BOOLEAN : AskPasswordReturns(ask, answered)

\* Fetches whose host prompts through the askpass relay: every
\* AskPassRequest is one a host sent for an operation it is serving.
SpecPrompt == InitTracked /\ [][NextPrompt]_vars

NextCommitBuffer ==
    \/ \E handle \in Range(repositories), languages \in BOOLEAN :
          OpenCommitBuffer(handle, languages)
    \/ \E c \in 1..Len(open_calls), opened \in BOOLEAN :
          \E buffer \in OpenedBuffers(open_calls[c].repo) :
              CommitBufferOpened(c, buffer, opened)
    \/ \E c \in 1..Len(open_calls), loaded \in BOOLEAN : CommitLanguageLoaded(c, loaded)

\* Calls of open_commit_buffer that may overlap.
SpecCommitBuffer == InitTracked /\ [][NextCommitBuffer]_vars

\* The number of submissions in the behaviours checked for liveness.
MaxLiveJobs == 2

\* A local store and a store opened over ssh, each after its first pass over
\* the two working directories.
InitGitInit ==
    /\ state \in {"Local", "Ssh"}
    /\ worktree_store = TwoRepositories
    /\ \E r \in {Reconcile(state, <<>>, None, <<>>, 1, TwoRepositories)} :
          /\ entities = r.entities
          /\ next_handle = r.next_handle
          /\ repositories = r.repositories
          /\ active_index = r.active_index
    /\ emitted = Some("FileSystemUpdated")
    /\ last_pass = NoPass
    /\ InitWorker

NextGitInit ==
    \/ /\ Len(job_table) < MaxLiveJobs
       /\ \E handle \in Range(repositories), path \in RepoPaths :
             SetIndexText(handle, path)
    \/ /\ Len(job_table) < MaxLiveJobs
       /\ \E handle \in Range(repositories) : Commit(handle)
    \/ WorkerRun
    \/ WorkerAwaitRx
    \/ \E job \in running, outcome \in {"ok", "err"} : JobFinish(job, outcome)
    \/ GitInit
    \/ HandleGitInit
    \/ \E i \in 1..Len(git_inits), outcome \in {"ok", "err"} : GitInitCompletes(i, outcome)

\* git_init beside the jobs of the worker.
SpecGitInit == InitGitInit /\ [][NextGitInit]_vars

\* The buffers whose diff reports staged hunks: those of the files of the
\* tracked repositories, and one that belongs to no repository.
DiffTargets == {None} \cup {Some(<<handle, path>>) : handle \in Range(repositories),
                                                    path \in RepoPaths}

NextHunks ==
    \/ /\ Len(job_table) < MaxLiveJobs
       /\ \E event \in BufferDiffEvents, target \in DiffTargets :
             OnBufferDiffEvent(event, target)
    \/ WorkerRun
    \/ WorkerAwaitRx
    \/ \E job \in running, outcome \in {"ok", "err"} : JobFinish(job, outcome)
    \/ \E w \in 1..Len(hunk_writes.watchers) : IndexWriteWatched(w)

\* Hunks staged and unstaged in the diffs of open buffers.
SpecHunks == InitTracked /\ [][NextHunks]_vars

NextLive ==
    \/ /\ Len(job_table) < MaxLiveJobs
       /\ \E handle \in Range(ActiveRepository), path \in RepoPaths :
             SetIndexText(handle, path)
    \/ /\ Len(job_table) < MaxLiveJobs
       /\ \E handle \in Range(ActiveRepository) : Commit(handle)
    \/ \E job \in 1..Len(job_table) : DropReceiver(job)
    \/ WorkerRun
    \/ WorkerAwaitRx
    \/ \E job \in running, outcome \in {"ok", "err"} : JobFinish(job, outcome)

\* The job queue of the active repository with callers that may stop waiting.
\* The executor runs the worker task whenever it can go on, and every job's
\* task comes to an end.
SpecLive ==
    /\ InitTracked
    /\ [][NextLive]_vars
    /\ WF_vars(WorkerRun)
    /\ WF_vars(\E job \in running, outcome \in {"ok", "err"} : JobFinish(job, outcome))

NextShutdown ==
    \/ /\ channel_open
       /\ \E handle \in Range(repositories), path \in RepoPaths : SetIndexText(handle, path)
    \/ /\ channel_open
       /\ \E handle \in Range(repositories) : Commit(handle)
    \/ DropSenders
    \/ WorkerRun
    \/ WorkerAwaitRx
    \/ WorkerExit
    \/ \E job \in running, outcome \in {"ok", "err"} : JobFinish(job, outcome)

\* The job queue up to and after the release of the store: a job can be
\* submitted only while a Repository, and with it a sending end, is held.
SpecShutdown == InitTracked /\ [][NextShutdown]_vars

\* The number of calls of each kind made around the passes of SpecRefresh.
MaxRefreshCalls == 1

\* The snapshots that report the two working directories of TwoRepositories,
\* in that order, in any of their states.
TrackedSnapshots ==
    {s \in Snapshots : /\ Len(s) = Len(TwoRepositories)
                       /\ \A k \in 1..Len(s) : EntryId(s[k]) = EntryId(TwoRepositories[k])}

NextRefresh ==
    \/ \E snapshot \in TrackedSnapshots :
          OnWorktreeStoreEvent("WorktreeUpdatedGitRepositories", snapshot)
    \/ /\ Len(open_calls) < MaxRefreshCalls
       /\ \E handle \in Range(repositories) : OpenCommitBuffer(handle, FALSE)
    \/ \E c \in 1..Len(open_calls) :
          \E buffer \in OpenedBuffers(open_calls[c].repo) :
              CommitBufferOpened(c, buffer, TRUE)
    \/ /\ Len(job_table) < MaxRefreshCalls
       /\ \E handle \in Range(repositories) : RemoteOperation(handle, "fetch")
    \/ WorkerRun
    \/ \E job \in running : JobFinish(job, "ok")

\* Passes over two tracked repositories that hold long-lived state: an open
\* commit buffer, a fetch in progress.
SpecRefresh == InitTracked /\ [][NextRefresh]_vars

NextPush ==
    \/ \E handle \in Range(repositories) : RemoteOperation(handle, "push")
    \/ \E handle \in Range(repositories), path \in RepoPaths : SetIndexText(handle, path)
    \/ WorkerRun
    \/ WorkerAwaitRx
    \/ \E job \in running, outcome \in {"ok", "err"} : JobFinish(job, outcome)

\* Pushes of the two repositories among index writes.
SpecPush == InitTracked /\ [][NextPush]_vars

NextDiff ==
    \/ \E handle \in Range(repositories) : Diff(handle)
    \/ \E id \in Identities : HandleGitDiff(id[1], id[2])
    \/ WorkerRun
    \/ WorkerAwaitRx
    \/ \E c \in 1..Len(diffs), text \in BackendDiffs : DiffJobFinish(c, text, "ok")
    \/ \E c \in 1..Len(diffs) : DiffJobFinish(c, DiffText(1, 0), "err")
    \/ \E c \in 1..Len(diffs) : HandleGitDiffReturns(c)

\* Diffs asked for directly and through GitDiff requests.
SpecDiff == InitTracked /\ [][NextDiff]_vars

\* A store as in InitTracked, with some buffers of the first worktree open.
InitStage ==
    /\ state = "Ssh"
    /\ worktree_store = TwoRepositories
    /\ \E r \in {Reconcile("Ssh", <<>>, None, <<>>, 1, TwoRepositories)} :
          /\ entities = r.entities
          /\ next_handle = r.next_handle
          /\ repositories = r.repositories
          /\ active_index = r.active_index
    /\ emitted = Some("FileSystemUpdated")
    /\ last_pass = NoPass
    /\ job_table = <<>>
    /\ job_rx = <<>>
    /\ channel_open = TRUE
    /\ jobs = <<>>
    /\ worker_pc = "ready"
    /\ running = {}
    /\ executed = <<>>
    /\ result = <<>>
    /\ popped_at = <<>>
    /\ asks = {}
    /\ reply = None
    /\ assert_failed = FALSE
    /\ buffers \in BufferStores
    /\ stage_calls = <<>>
    /\ requests = <<>>
    /\ diffs = <<>>
    /\ open_calls = <<>>
    /\ next_buffer = 1
    /\ hunk_writes = NoHunkWrites
    /\ git_inits = <<>>

NextStage ==
    \/ \E handle \in Range(repositories), entries \in EntryLists, unstage \in BOOLEAN :
          StageEntries(handle, entries, unstage)
    \/ \E id \in Identities, entries \in EntryLists :
          HandleStage(id[1], id[2], entries, FALSE)
    \/ \E c \in 1..Len(stage_calls) :
          \E k \in 1..Len(stage_calls[c].saves), saved \in BOOLEAN :
              SaveBufferCompletes(c, k, saved)
    \/ \E c \in 1..Len(stage_calls) : StageSaveFailed(c)
    \/ \E c \in 1..Len(stage_calls) : StageSubmit(c)
    \/ WorkerRun
    \/ WorkerAwaitRx
    \/ \E job \in running, outcome \in {"ok", "err"} : JobFinish(job, outcome)

\* Staging and unstaging, called directly and through inbound requests.
SpecStage == InitStage /\ [][NextStage]_vars

NextStageCommit ==
    \/ \E handle \in Range(repositories), entries \in EntryLists :
          StageEntries(handle, entries, FALSE)
    \/ \E c \in 1..Len(stage_calls) :
          \E k \in 1..Len(stage_calls[c].saves), saved \in BOOLEAN :
              SaveBufferCompletes(c, k, saved)
    \/ \E c \in 1..Len(stage_calls) : StageSaveFailed(c)
    \/ \E c \in 1..Len(stage_calls) : StageSubmit(c)
    \/ /\ Len(job_table) < MaxLiveJobs
       /\ \E handle \in Range(repositories) : Commit(handle)
    \/ WorkerRun
    \/ WorkerAwaitRx
    \/ \E job \in running, outcome \in {"ok", "err"} : JobFinish(job, outcome)

\* Staging followed by a commit.
SpecStageCommit == InitStage /\ [][NextStageCommit]_vars

(***************************************************************************)
(* Properties of the job queue (checked under Spec)                        *)
(***************************************************************************)
JobIds == 1..Len(job_table)
Keyed(j) == job_table[j].key # None
SameKey(i, j) == Keyed(i) /\ job_table[i].key = job_table[j].key
\* job j had been submitted when the worker popped job i
SubmittedBeforePop(j, i) == popped_at[i] >= j

\* C1: of two set_index_text jobs with the same key, both submitted before the
\* worker pops the first, the first is never run and its result channel is
\* canceled (never a success); the second, when no later job with that key
\* was submitted before the worker popped it, is the one that runs.
CoalescedWriteNeverRuns ==
    \A i, j \in JobIds :
        (i < j /\ SameKey(i, j) /\ SubmittedBeforePop(j, i))
            => /\ i \notin Range(executed)
               /\ result[i] = "canceled"
               /\ (/\ popped_at[j] > 0
                   /\ ~\E k \in JobIds : j < k /\ SameKey(j, k) /\ SubmittedBeforePop(k, j))
                      => (j \in Range(executed) /\ result[j] # "canceled")

\* C1 witness: the first write was dropped and the second one ran and succeeded.
CoalescedWriteWitness ==
    \E i, j \in JobIds :
        /\ i < j /\ SameKey(i, j) /\ SubmittedBeforePop(j, i)
        /\ result[i] = "canceled"
        /\ j \in Range(executed) /\ result[j] = "ok"

\* C2: the unkeyed jobs are executed in the order of their submission: none is
\* skipped, and none is started before an unkeyed job submitted earlier.
UnkeyedJobsInSubmissionOrder ==
    /\ \A p, q \in 1..Len(executed) :
          (p < q /\ ~Keyed(executed[p]) /\ ~Keyed(executed[q]))
              => executed[p] < executed[q]
    /\ \A i, j \in JobIds :
          (i < j /\ ~Keyed(i) /\ ~Keyed(j) /\ j \in Range(executed))
              => i \in Range(executed)
    /\ \A j \in JobIds : ~Keyed(j) => result[j] # "canceled"

\* C2 witness: two unkeyed jobs ran around a keyed job submitted between them.
UnkeyedJobsWitness ==
    \E i, k, j \in JobIds :
        /\ i < k /\ k < j /\ ~Keyed(i) /\ Keyed(k) /\ ~Keyed(j)
        /\ {i, k, j} \subseteq Range(executed)
        /\ result[j] # "pending"

\* C3: at most one job of the coordinator is executing, and the worker does
\* nothing else while it is.
OneJobAtATime ==
    /\ Cardinality(running) <= 1
    /\ running # {} => worker_pc = "awaiting_job"
    /\ \A p \in 1..Len(executed) :
          p < Len(executed) => result[executed[p]] \in {"ok", "err"}

\* C3 witness: a job of one repository runs while a job of the other waits.
OneJobAtATimeWitness ==
    \E j \in running, k \in Range(jobs \o job_rx) :
        job_table[j].repo # job_table[k].repo

\* the worker pops job j in this step
PoppedNow(j) == popped_at[j] = 0 /\ popped_at'[j] > 0
\* the jobs behind job j in the buffer the worker pops it from
BehindInBuffer(j) ==
    LET buffer == jobs \o job_rx
        at == CHOOSE p \in 1..Len(buffer) : buffer[p] = j
    IN  {buffer[q] : q \in (at + 1)..Len(buffer)}

\* C21: the worker skips the job it pops exactly when that job has a key and
\* another job in the buffer has an equal key; a job without a key, and a keyed
\* job with only unkeyed jobs or jobs of other keys behind it, is started.
SkippedIffSameKeyBuffered ==
    [][ \A j \in JobIds :
          PoppedNow(j) =>
              ( (j \notin Range(executed'))
                    <=> (/\ Keyed(j)
                         /\ \E k \in BehindInBuffer(j) :
                                job_table[k].key = job_table[j].key) ) ]_vars

\* C21 witness: one write was skipped for a later write of its key, and a write
\* was started with a write of another key behind it in the buffer.
SkippedIffSameKeyWitness ==
    \E i, j, k \in JobIds :
        /\ result[i] = "canceled"
        /\ j < k /\ Keyed(j) /\ Keyed(k) /\ ~SameKey(j, k)
        /\ SubmittedBeforePop(k, j)
        /\ j \in Range(executed)

IsIndexWrite(j) == job_table[j].verb = "set_index_text"

\* C22: of two set_index_text jobs for the same path submitted on different
\* repositories, neither is skipped: each one the worker has popped was
\* started, and none has its result channel canceled.
IndexWritesAcrossRepositoriesBothRun ==
    \A i, j \in JobIds :
        (/\ i # j /\ IsIndexWrite(i) /\ IsIndexWrite(j)
         /\ job_table[i].key = job_table[j].key
         /\ job_table[i].repo # job_table[j].repo)
            => /\ result[i] # "canceled"
               /\ popped_at[i] > 0 => i \in Range(executed)

\* C23: a job is started at most once and is never put back into the buffer
\* or the channel; what its result channel holds, once it holds an outcome or
\* is canceled, never changes; and the outcome a job's task ends with, failure
\* or success, is what its result channel then holds.
JobRunsAtMostOnce ==
    [][ /\ \A p, q \in 1..Len(executed') : p # q => executed'[p] # executed'[q]
        /\ \A j \in JobIds :
              j \in Range(executed) => j \notin Range(jobs' \o job_rx')
        /\ \A j \in JobIds :
              result[j] \in {"ok", "err", "canceled"} => result'[j] = result[j]
        /\ \A j \in JobIds, outcome \in {"ok", "err"} :
              JobFinish(j, outcome) => result'[j] = outcome ]_vars

\* C23 witness: a job failed, its caller holds the failure, and the worker went
\* on to the job submitted after it.
JobRunsAtMostOnceWitness ==
    \E j, k \in JobIds :
        /\ j < k
        /\ result[j] = "err"
        /\ k \in Range(executed)
        /\ jobs \o job_rx = <<>>

\* C24: the jobs the worker started, in the order it started them, are a
\* subsequence of the submissions: a job started earlier was submitted earlier,
\* whether the jobs carry keys or not.
ExecutedIsSubsequenceOfSubmissions ==
    \A p, q \in 1..Len(executed) : p < q => executed[p] < executed[q]

\* C24 witness: an index write was skipped, and the unkeyed job and the index
\* write submitted after it were started in that order.
ExecutedIsSubsequenceWitness ==
    \E i, j, k \in JobIds :
        /\ i < j /\ j < k
        /\ result[i] = "canceled"
        /\ ~Keyed(j) /\ Keyed(k)
        /\ executed = <<j, k>>

\* C25: the worker has exited only if the channel is closed and empty and the
\* buffer is empty, every submitted job having been started and ended, or
\* skipped for a later job of its key; with the channel open and nothing to
\* do the worker is at, or on its way to, the await of the next submission.
WorkerExitsOnlyWhenClosedAndDrained ==
    /\ worker_pc = "exited"
          => /\ ~channel_open
             /\ jobs \o job_rx = <<>>
             /\ running = {}
             /\ \A j \in JobIds :
                    \/ j \in Range(executed) /\ result[j] \in {"ok", "err"}
                    \/ result[j] = "canceled" /\ \E k \in JobIds : j < k /\ SameKey(j, k)
    /\ (channel_open /\ jobs \o job_rx = <<>> /\ running = {})
          => worker_pc \in {"ready", "awaiting_rx"}

\* C25 witness: the worker exited after it had started a job and skipped one.
WorkerExitsWitness ==
    /\ worker_pc = "exited"
    /\ executed # <<>>
    /\ \E j \in JobIds : result[j] = "canceled"

(***************************************************************************)
(* Properties of the reconciliation (checked under SpecReconcile)          *)
(***************************************************************************)
ReportedIds == {EntryId(worktree_store[k]) : k \in 1..Len(worktree_store)}
ActiveWasDropped ==
    /\ last_pass.ran
    /\ last_pass.old_active # None
    /\ last_pass.old_active[1].handle \notin Range(repositories)

\* C4: right after a pass, a second pass over the same snapshot leaves the
\* repository list (same handles, same order) and the active index as they are.
ReconcileIdempotent ==
    last_pass.ran =>
        LET again == Reconcile(state, repositories, active_index, entities,
                               next_handle, worktree_store)
        IN  /\ again.repositories = repositories
            /\ again.active_index = active_index

\* C4 witness: a pass ran over the snapshot the pass before it saw, with two
\* repositories tracked and the second one active.
ReconcileIdempotentWitness ==
    /\ last_pass.ran /\ last_pass.same
    /\ Len(repositories) >= 2
    /\ active_index = Some(1)

\* C5: when the repository active before a pass is not in the resulting list
\* and that list is not empty, the active index after the pass is 0.
DroppedActiveSelectsFirst ==
    (ActiveWasDropped /\ repositories # <<>>) => active_index = Some(0)

\* C5 witness: the active repository was not the first one, it was dropped, and
\* two repositories remain.
DroppedActiveSelectsFirstWitness ==
    /\ ActiveWasDropped
    /\ last_pass.old_active[1].index >= 1
    /\ Len(repositories) >= 2

\* C6: the active index is None exactly when the list is empty, and otherwise
\* a valid index into the current list, whose entities are all held.
ActiveIndexValid ==
    /\ (active_index = None) <=> (repositories = <<>>)
    /\ active_index # None => active_index[1] \in 0..(Len(repositories) - 1)
    /\ ActiveRepository # None => ActiveRepository[1] \in DOMAIN entities
    /\ DOMAIN entities = Range(repositories)

\* C6 witness: the second repository was activated and a pass then shrank the
\* list to one repository.
ActiveIndexValidWitness ==
    /\ last_pass.ran
    /\ last_pass.old_active # None
    /\ last_pass.old_active[1].index = 1
    /\ Len(repositories) = 1

\* C7: when the identity of the repository active before a pass is still
\* reported, the active repository after the pass is that same handle.
ActiveSelectionPreserved ==
    (/\ last_pass.ran
     /\ last_pass.old_active # None
     /\ last_pass.old_active[1].id \in ReportedIds)
        => ActiveRepository = Some(last_pass.old_active[1].handle)

\* C7 witness: the active repository was kept and its position changed.
ActiveSelectionPreservedWitness ==
    /\ last_pass.ran
    /\ last_pass.old_active # None
    /\ ActiveRepository = Some(last_pass.old_active[1].handle)
    /\ active_index # Some(last_pass.old_active[1].index)

\* C8 as stated: when a pass drops the active repository and no repository
\* occupies its old position in the new list, the active index becomes None.
DroppedActiveBecomesNone ==
    (ActiveWasDropped /\ last_pass.old_active[1].index >= Len(repositories))
        => active_index = None

\* C8 as amended: when a pass drops the active repository, the active index
\* becomes None if the new list is empty and 0 otherwise, whatever occupies
\* the old position.
DroppedActiveBecomesFirstOrNone ==
    ActiveWasDropped =>
        active_index = (IF repositories = <<>> THEN None ELSE Some(0))

\* C8 witness: the dropped active repository was second, another repository
\* occupies that position now, and the first one is active.
DroppedActiveReplacedWitness ==
    /\ ActiveWasDropped
    /\ last_pass.old_active[1].index = 1
    /\ Len(repositories) = 2
    /\ active_index = Some(0)

\* C9: a pass that finds a reported working directory already tracked keeps
\* that handle in the new list, creates no other repository for the identity,
\* and leaves the handle's status snapshot equal to the reported entry.
MatchedHandleKeptAndRefreshed ==
    [][ last_pass'.ran =>
          \A h \in Range(repositories) : \A k \in 1..Len(worktree_store') :
              RepositoryId(entities[h]) = EntryId(worktree_store'[k])
                  => /\ h \in Range(repositories')
                     /\ entities'[h].repository_entry =
                            [ work_directory_id |-> worktree_store'[k].work_directory_id,
                              status            |-> worktree_store'[k].status ]
                     /\ \A other \in Range(repositories') :
                            RepositoryId(entities'[other]) = EntryId(worktree_store'[k])
                                => other = h ]_vars

\* C9 witness: a pass kept a handle and changed its status snapshot.
MatchedHandleWitness == last_pass.ran /\ last_pass.refreshed

\* The reported working directories the store can give a backend: those of a
\* local worktree, and those of any worktree when the store has a project id.
MappableIds ==
    {EntryId(worktree_store[k]) :
        k \in {l \in 1..Len(worktree_store) :
                  \/ worktree_store[l].worktree_id \in LocalWorktrees
                  \/ state # "Local"}}
TrackedIds == {RepositoryId(entities[h]) : h \in Range(repositories)}

\* C26: after a pass the identities in the repository list are exactly the
\* reported working directories that can be mapped to a backend, one handle
\* for each, and the pass has come to its end and announced itself.
TrackedAreReportedAndMappable ==
    last_pass.ran =>
        /\ TrackedIds = MappableIds
        /\ Len(repositories) = Cardinality(MappableIds)
        /\ emitted # None

\* C26 witness: a pass in a store without a project id skipped a working
\* directory of a remote worktree and left fewer repositories than were created.
TrackedAreReportedWitness ==
    /\ last_pass.ran
    /\ state = "Local"
    /\ \E k \in 1..Len(worktree_store) : worktree_store[k].worktree_id \notin LocalWorktrees
    /\ repositories # <<>>
    /\ Len(repositories) < next_handle - 1

\* C30: no two positions of the repository list hold handles with the same
\* identity (worktree_id, work_directory_id), nor the same handle.
IdentitiesUnique ==
    \A i, j \in 1..Len(repositories) :
        i # j => /\ repositories[i] # repositories[j]
                 /\ RepositoryId(entities[repositories[i]])
                        # RepositoryId(entities[repositories[j]])

\* C30 witness: a pass over the working directories already tracked, two of
\* them in one worktree, kept one handle for each.
IdentitiesUniqueWitness ==
    /\ last_pass.ran /\ last_pass.same
    /\ Len(repositories) = 3
    /\ next_handle = 4

\* C20: a reconciliation pass emits exactly one event: GitStateUpdated when
\* the event that triggered it is WorktreeUpdatedGitRepositories, and
\* FileSystemUpdated when it is any other event.
OnePassOneNotification ==
    last_pass.ran =>
        /\ Len(emitted) = 1
        /\ (last_pass.event = "WorktreeUpdatedGitRepositories")
              => emitted[1] = "GitStateUpdated"
        /\ (last_pass.event # "WorktreeUpdatedGitRepositories")
              => emitted[1] = "FileSystemUpdated"

\* C20 witness: a pass triggered by WorktreeUpdatedGitRepositories that changed
\* a tracked repository's status announced a git state update.
OnePassOneNotificationWitness ==
    /\ last_pass.ran
    /\ last_pass.event = "WorktreeUpdatedGitRepositories"
    /\ last_pass.refreshed
    /\ emitted = Some("GitStateUpdated")

(***************************************************************************)
(* Properties of the askpass relay (checked under SpecAskPass)             *)
(***************************************************************************)
IsRemoteOperation(j) ==
    job_table[j].verb \in RemoteOperations /\ job_table[j].git_repo = "Remote"
Finished(j) == result[j] \in {"ok", "err"}

\* C10: once the job of a remote-backend fetch, push or pull has finished, its
\* askpass id is absent from the correlation map of its repository.
AskpassIdRemovedAfterJob ==
    \A j \in JobIds :
        (IsRemoteOperation(j) /\ Finished(j))
            => job_table[j].askpass_id[1]
                  \notin entities[job_table[j].repo].askpass_delegates

IsRemoteVerb(j) == job_table[j].verb \in RemoteOperations

\* C31: of two fetch, push or pull calls on one repository the later takes the
\* greater askpass id, every id taken is below the repository's counter, and
\* the counter has grown by one for each call.
AskpassIdsIncrease ==
    /\ \A i, j \in JobIds :
          (i < j /\ IsRemoteVerb(i) /\ IsRemoteVerb(j)
                 /\ job_table[i].repo = job_table[j].repo)
              => job_table[i].askpass_id[1] < job_table[j].askpass_id[1]
    /\ \A j \in JobIds :
          IsRemoteVerb(j)
              => job_table[j].askpass_id[1] < entities[job_table[j].repo].latest_askpass_id
    /\ \A h \in Range(repositories) :
          entities[h].latest_askpass_id
              = Cardinality({j \in JobIds : IsRemoteVerb(j) /\ job_table[j].repo = h})

\* C31 witness: two fetches of the remote-backend repository are outstanding,
\* the first with its delegate registered, the second waiting for the worker.
AskpassIdsIncreaseWitness ==
    \E i, j \in JobIds :
        /\ i < j
        /\ IsRemoteOperation(i) /\ IsRemoteOperation(j)
        /\ job_table[i].repo = job_table[j].repo
        /\ i \in running
        /\ job_table[i].askpass_id[1] \in entities[job_table[i].repo].askpass_delegates
        /\ result[j] = "pending" /\ j \notin Range(executed)

\* the job whose task starts, and the job whose task ends, in this step
StartsNow(j) == j \in running' /\ j \notin running
EndsNow(j) == j \in running /\ j \notin running'

\* C32: when the task of a remote-backend fetch, push or pull starts and its
\* request goes out, the id the request carries has just been added to the
\* correlation map of its repository; the start and the end of such an
\* operation on a local backend leave every correlation map as it was.
HandlerRegisteredWithRequest ==
    [][ \A j \in JobIds :
          /\ (StartsNow(j) /\ IsRemoteOperation(j))
                => entities'[job_table[j].repo].askpass_delegates
                      = entities[job_table[j].repo].askpass_delegates
                           \cup {OperationRequest(entities, job_table[j]).askpass_id}
          /\ ((StartsNow(j) \/ EndsNow(j)) /\ IsRemoteVerb(j) /\ ~IsRemoteOperation(j))
                => \A h \in Range(repositories) :
                       entities'[h].askpass_delegates = entities[h].askpass_delegates ]_vars

\* C32 witness: a fetch of the remote-backend repository is running with its
\* id registered, after a fetch on the local backend has ended.
HandlerRegisteredWitness ==
    \E i, j \in JobIds :
        /\ IsRemoteVerb(i) /\ ~IsRemoteOperation(i) /\ Finished(i)
        /\ IsRemoteOperation(j) /\ j \in running
        /\ OperationRequest(entities, job_table[j]).askpass_id
              \in entities[job_table[j].repo].askpass_delegates

\* An AskPassRequest for askpass_id that names repository h is handled now.
RequestHandled(h, askpass_id) ==
    HandleAskpass(entities[h].worktree_id,
                  entities[h].repository_entry.work_directory_id, askpass_id)

\* The handler found a delegate: it took it out of the map of h and waits for
\* the answer.
PromptStarted(h, askpass_id) ==
    /\ [repo |-> h, askpass_id |-> askpass_id] \in asks'
    /\ askpass_id \notin entities'[h].askpass_delegates

\* C33 as stated: an AskPassRequest that names a tracked repository finds a
\* delegate whenever its id is registered by an operation of some repository
\* of the store.
LookupFindsEntryOfAnyRepository ==
    [][ \A h \in Range(repositories), askpass_id \in AskpassIds :
          (/\ RequestHandled(h, askpass_id)
           /\ \E other \in Range(repositories) :
                 askpass_id \in entities[other].askpass_delegates)
              => PromptStarted(h, askpass_id) ]_vars

\* C33 as amended: every repository has a correlation map of its own: an
\* AskPassRequest finds a delegate exactly when its id is registered by an
\* operation of the repository it names, wherever else the id is registered.
LookupFindsOwnEntriesOnly ==
    [][ \A h \in Range(repositories), askpass_id \in AskpassIds :
          RequestHandled(h, askpass_id)
              => IF askpass_id \in entities[h].askpass_delegates
                 THEN PromptStarted(h, askpass_id)
                 ELSE /\ reply' = Some("no askpass found")
                      /\ asks' = asks ]_vars

\* C33 witness: a request was refused while the only registered delegates
\* were those of a repository other than one that never registered any.
LookupFindsOwnEntriesWitness ==
    /\ reply = Some("no askpass found")
    /\ \E h, other \in Range(repositories) :
          /\ h # other
          /\ entities[h].askpass_delegates = {}
          /\ entities[h].latest_askpass_id = 0
          /\ entities[other].askpass_delegates # {}

\* The fetch, push or pull of repository h that registered askpass_id has its
\* request outstanding.
Outstanding(h, askpass_id) ==
    \E j \in running :
        /\ IsRemoteOperation(j)
        /\ job_table[j].repo = h
        /\ job_table[j].askpass_id = Some(askpass_id)

\* C34: a prompt goes Registered, Answered, Removed in that order: the request
\* of the host names the repository and the id of the operation it serves and
\* starts a prompt of the delegate registered under that id; a successful
\* answer registers the entry under the same id again, and the owning
\* operation is still outstanding then, so that its cleanup removes the entry
\* last.
PromptRegisteredAnsweredRemoved ==
    [][ /\ \A j \in running :
              (/\ HostPrompts(j)
               /\ job_table[j].askpass_id[1]
                     \in entities[job_table[j].repo].askpass_delegates)
                  => PromptStarted(job_table[j].repo, job_table[j].askpass_id[1])
        /\ \A ask \in asks :
              AskPasswordReturns(ask, TRUE)
                  => /\ ask.askpass_id \in entities'[ask.repo].askpass_delegates
                     /\ reply' = Some("response")
                     /\ Outstanding(ask.repo, ask.askpass_id) ]_vars

\* C35: while a remote-backend fetch, push or pull is outstanding, every
\* AskPassRequest its host sends finds the registered handler and starts a
\* prompt.
OutstandingOperationFindsHandler ==
    [][ \A j \in running :
          HostPrompts(j)
              => PromptStarted(job_table[j].repo, job_table[j].askpass_id[1]) ]_vars

\* C36: the debug assertion of the deferred cleanup, that the entry of the
\* operation's askpass id is in the map, never fails.
CleanupFindsEntry == ~assert_failed

\* C15: an AskPassRequest whose askpass id is not in the correlation map of
\* the repository it names is answered with the error "no askpass found"; it
\* starts no prompt and leaves every correlation map as it was.
UnknownAskpassIdRejected ==
    [][ \A id \in Identities, askpass_id \in AskpassIds :
          (/\ HandleAskpass(id[1], id[2], askpass_id)
           /\ \E h \in Range(repositories) :
                 /\ RepositoryId(entities[h]) = id
                 /\ askpass_id \notin entities[h].askpass_delegates)
              => /\ reply' = Some("no askpass found")
                 /\ asks' = asks
                 /\ entities' = entities ]_vars

\* C15 witness: a request with an unknown id was refused while the delegate of
\* a running operation was registered.
UnknownAskpassIdWitness ==
    /\ reply = Some("no askpass found")
    /\ \E h \in Range(repositories) : entities[h].askpass_delegates # {}

(***************************************************************************)
(* Properties of hunk staging (checked under SpecHunks)                    *)
(***************************************************************************)
\* the task watching index write w receives its result in this step
WatchedNow(w) ==
    hunk_writes.watchers[w].pc = "waiting" /\ hunk_writes'.watchers[w].pc = "done"

WriteFailed(j) == j \in Range(executed) /\ result[j] = "err"

\* C37: for an index write of staged or unstaged hunks, IndexWriteError is
\* emitted and the pending hunks of the diff are cleared if and only if the
\* set_index_text job ran and returned a failure; a write that succeeded or
\* was superseded emits nothing and leaves the pending hunks alone, and
\* nothing is reported before the result is in.
IndexWriteErrorIffJobFailed ==
    /\ [][ \A w \in 1..Len(hunk_writes.watchers) :
              WatchedNow(w) =>
                  IF WriteFailed(hunk_writes.watchers[w].job)
                  THEN /\ emitted' = Some("IndexWriteError")
                       /\ hunk_writes.watchers[w].diff \notin hunk_writes'.pending
                  ELSE /\ emitted' # Some("IndexWriteError")
                       /\ hunk_writes'.pending = hunk_writes.pending ]_vars
    /\ [](\A w \in 1..Len(hunk_writes.watchers) :
              hunk_writes.watchers[w].notified
                  <=> /\ hunk_writes.watchers[w].pc = "done"
                      /\ WriteFailed(hunk_writes.watchers[w].job))

\* C37 witness: of two writes of the hunks of one file, the first was
\* superseded and reported nothing, the second failed and was reported.
IndexWriteErrorWitness ==
    /\ Len(hunk_writes.watchers) = 2
    /\ hunk_writes.watchers[1].diff = hunk_writes.watchers[2].diff
    /\ result[hunk_writes.watchers[1].job] = "canceled"
    /\ hunk_writes.watchers[1].pc = "done"
    /\ ~hunk_writes.watchers[1].notified
    /\ hunk_writes.watchers[2].notified
    /\ emitted = Some("IndexWriteError")
    /\ hunk_writes.pending = {}

(***************************************************************************)
(* Properties of git_init (checked under SpecGitInit)                      *)
(***************************************************************************)
\* C38: every git-affecting operation runs on the worker, one at a time: no
\* git_init of the store's own file system runs while the task of a job the
\* worker started is running.
GitInitSerializedWithJobs ==
    \A i \in 1..Len(git_inits) :
        (git_inits[i].runs = "fs" /\ git_inits[i].pc = "running") => running = {}

(***************************************************************************)
(* Liveness of the job queue (checked under SpecLive)                      *)
(***************************************************************************)
Completed(j) == j \in Range(executed) /\ j \notin running
HasLaterSameKey(j) == \E k \in JobIds : j < k /\ SameKey(j, k)

\* C18: every submitted job is eventually executed unless a job with an equal
\* key is submitted after it.
LastSubmissionEventuallyRuns ==
    \A j \in 1..MaxJobs :
        (j \in JobIds) ~> (j \in Range(executed) \/ HasLaterSameKey(j))

\* C18 witness: after an index write was dropped, the last write with its key
\* has run.
LastSubmissionWitness ==
    \E i, j \in JobIds :
        /\ i < j /\ SameKey(i, j) /\ result[i] = "canceled"
        /\ ~HasLaterSameKey(j) /\ Completed(j)

\* C19: a job whose caller dropped the receiver is still started and comes to
\* its end, unless a job with an equal key is submitted after it, and when it
\* ends the worker is ready for the following jobs.
DroppedReceiverJobStillRuns ==
    /\ \A j \in 1..MaxJobs :
          (j \in JobIds /\ result[j] = "dropped") ~> (Completed(j) \/ HasLaterSameKey(j))
    /\ \A j \in 1..MaxJobs :
          (j \in JobIds /\ result[j] = "dropped" /\ j \in running)
              ~> (Completed(j) /\ worker_pc = "ready")

\* C19 witness: a job ran to its end with its receiver dropped, and a job
\* submitted after it has run as well.
DroppedReceiverWitness ==
    \E j, k \in JobIds :
        /\ j < k
        /\ result[j] = "dropped" /\ Completed(j)
        /\ Completed(k)

(***************************************************************************)
(* Properties of concurrent pushes (checked under SpecPush)                *)
(***************************************************************************)
IsPush(j) == job_table[j].verb = "push"

\* C12: of two pushes submitted on different repositories, neither is dropped:
\* each one the worker has popped was started, and once the worker has nothing
\* left to pop both have been started.
PushesBothExecute ==
    \A i, j \in JobIds :
        (i # j /\ IsPush(i) /\ IsPush(j) /\ job_table[i].repo # job_table[j].repo)
            => /\ result[i] # "canceled"
               /\ popped_at[i] > 0 => i \in Range(executed)
               /\ (jobs \o job_rx = <<>>) => {i, j} \subseteq Range(executed)

\* C12 witness: the second push was submitted before the worker popped the
\* first, and both ran to their end.
PushesBothExecuteWitness ==
    \E i, j \in JobIds :
        /\ i < j /\ IsPush(i) /\ IsPush(j) /\ job_table[i].repo # job_table[j].repo
        /\ SubmittedBeforePop(j, i)
        /\ Finished(i) /\ Finished(j)

(***************************************************************************)
(* Properties of diff (checked under SpecDiff)                             *)
(***************************************************************************)
\* The first ONE_MB characters of a text longer than that, the text otherwise.
Capped(text) ==
    IF text.count > ONE_MB THEN DiffText(text.width, ONE_MB) ELSE text

\* C13: the diff a diff operation returns (Repository::diff on either backend,
\* and the GitDiff response) is the underlying diff cut to exactly 1,000,000
\* characters when it is longer, and the underlying diff itself otherwise.
DiffTruncatedToOneMb ==
    \A c \in 1..Len(diffs) :
        diffs[c].underlying # None =>
            /\ diffs[c].returned = Some(DiffOk(Capped(diffs[c].underlying[1])))
            /\ (diffs[c].rpc /\ diffs[c].response # None)
                  => diffs[c].response = Some(DiffOk(Capped(diffs[c].underlying[1])))

(***************************************************************************)
(* Properties of open_commit_buffer (checked under SpecCommitBuffer)       *)
(***************************************************************************)
\* C16: every two calls of open_commit_buffer on a repository that returned a
\* buffer returned the same buffer, whether or not the calls overlapped.
OpenCommitBufferIdempotent ==
    \A c, d \in 1..Len(open_calls) :
        (/\ open_calls[c].repo = open_calls[d].repo
         /\ open_calls[c].returned # None
         /\ open_calls[d].returned # None)
            => open_calls[c].returned = open_calls[d].returned

(***************************************************************************)
(* Properties of staging (checked under SpecStage)                         *)
(***************************************************************************)
StageCalls == 1..Len(stage_calls)
IsStageJob(j) == job_table[j].verb \in {"stage", "unstage"}

\* C11: when the job of a stage_entries or unstage_entries call has been
\* submitted, every path of the call whose buffer is open on a file that exists
\* on disk has had its save started by the call and completed with success;
\* and stage and unstage jobs are submitted by such calls only.
StageAfterSaves ==
    /\ \A c \in StageCalls :
          stage_calls[c].job # None =>
              \A e \in 1..Len(stage_calls[c].entries) :
                  BuffersOf(stage_calls[c].repo, buffers)[stage_calls[c].entries[e]] = "open"
                      => \E k \in 1..Len(stage_calls[c].save_futures) :
                            /\ stage_calls[c].save_futures[k] = stage_calls[c].entries[e]
                            /\ stage_calls[c].saves[k] = "saved"
    /\ \A j \in JobIds :
          IsStageJob(j) => \E c \in StageCalls : stage_calls[c].job = Some(j)

\* C11 witness: a call saved two buffers and its job then ran on the backend.
StageAfterSavesWitness ==
    \E c \in StageCalls :
        /\ Len(stage_calls[c].save_futures) = 2
        /\ stage_calls[c].job # None
        /\ stage_calls[c].job[1] \in Range(executed)

SaveFailed(c) == \E k \in 1..Len(stage_calls[c].saves) : stage_calls[c].saves[k] = "failed"

\* C39: a stage_entries or unstage_entries call one of whose saves failed
\* submits no job and returns nothing but a failure; the queue holds no stage
\* or unstage job but those of the calls that submitted one.
FailedSaveSubmitsNothing ==
    /\ \A c \in StageCalls :
          SaveFailed(c) => /\ stage_calls[c].job = None
                           /\ stage_calls[c].pc \in {"awaiting_saves", "returned_err"}
                           /\ StageResult(c) \in {None, Some("err")}
    /\ Cardinality({j \in JobIds : IsStageJob(j)})
          = Cardinality({c \in StageCalls : stage_calls[c].job # None})

\* C39 witness: of the two saves of a call the first succeeded and the second
\* failed; the call returned the failure and the queue never saw a job.
FailedSaveWitness ==
    \E c \in StageCalls :
        /\ stage_calls[c].saves = <<"saved", "failed">>
        /\ StageResult(c) = Some("err")
        /\ job_table = <<>>

\* the position of job j in the order the worker started the jobs
StartedAt(j) == CHOOSE p \in 1..Len(executed) : executed[p] = j

\* C40: operations of one repository run in the order of their calls: when
\* commit is called after stage_entries with a non-empty path list was called
\* on the same repository, the commit does not run on the backend unless the
\* stage has run before it.
StageRunsBeforeLaterCommit ==
    \A c \in StageCalls, j \in JobIds :
        (/\ ~EntriesIsEmpty(stage_calls[c].entries)
         /\ ~stage_calls[c].unstage
         /\ job_table[j].verb = "commit"
         /\ job_table[j].repo = stage_calls[c].repo
         /\ j > stage_calls[c].called_at
         /\ j \in Range(executed))
            => /\ stage_calls[c].job # None
               /\ stage_calls[c].job[1] \in Range(executed)
               /\ StartedAt(stage_calls[c].job[1]) < StartedAt(j)

\* C14: an inbound request whose identity is tracked is resolved to the
\* repository with that identity; a request whose identity is not tracked is
\* answered "missing repository handle", starts no call and submits no job.
RequestResolvesRepository ==
    /\ \A r \in 1..Len(requests) :
          LET tracked == {h \in Range(repositories) :
                             RepositoryId(entities[h]) =
                                 <<requests[r].worktree_id, requests[r].work_directory_id>>}
          IN  IF tracked = {}
              THEN /\ StageReply(r) = Some("missing repository handle")
                   /\ requests[r].call = None
              ELSE /\ requests[r].call # None
                   /\ stage_calls[requests[r].call[1]].repo \in tracked
                   /\ StageReply(r) # Some("missing repository handle")
    /\ \A j \in JobIds :
          IsStageJob(j) => \E c \in StageCalls : stage_calls[c].job = Some(j)
    /\ Cardinality({r \in 1..Len(requests) : requests[r].call # None}) <= Len(stage_calls)

\* C14 witness: a request named a working directory that is not tracked, got
\* the error, and nothing was submitted.
RequestResolvesRepositoryWitness ==
    \E r \in 1..Len(requests) :
        /\ StageReply(r) = Some("missing repository handle")
        /\ stage_calls = <<>>
        /\ job_table = <<>>

\* C17: a stage_entries or unstage_entries call with an empty path list has
\* returned success, has started no save and has submitted no job.
EmptyStageShortCircuits ==
    /\ \A c \in StageCalls :
          stage_calls[c].entries = <<>>
              => /\ StageResult(c) = Some("ok")
                 /\ stage_calls[c].pc = "returned_ok"
                 /\ stage_calls[c].save_futures = <<>>
                 /\ stage_calls[c].job = None
    /\ Len(job_table) <= Cardinality({c \in StageCalls : stage_calls[c].entries # <<>>})

\* C17 witness: an unstage call with no path returned success.
EmptyStageWitness ==
    \E c \in StageCalls :
        /\ stage_calls[c].entries = <<>>
        /\ stage_calls[c].unstage
        /\ StageResult(c) = Some("ok")

(***************************************************************************)
(* Properties of a pass over tracked repositories (checked under           *)
(* SpecRefresh)                                                            *)
(***************************************************************************)
\* this step is a reconciliation pass: the one the history then records
PassStep ==
    /\ last_pass'.ran
    /\ OnWorktreeStoreEvent(last_pass'.event, worktree_store')

\* C27: when a pass finds a reported working directory already tracked, the
\* tracked repository's status snapshot afterwards is the reported entry and
\* its merge message the one the pass computed for that working directory,
\* whether its backend is Local or Remote.
MatchedHandleTakesComputedValues ==
    [][ PassStep =>
          \A h \in Range(repositories) : \A k \in 1..Len(worktree_store') :
              RepositoryId(entities[h]) = EntryId(worktree_store'[k])
                  => /\ entities'[h].repository_entry =
                            [ work_directory_id |-> worktree_store'[k].work_directory_id,
                              status            |-> worktree_store'[k].status ]
                     /\ entities'[h].merge_message =
                            GitData(state, worktree_store'[k])[1].merge_message ]_vars

\* C27 witness: passes gave the Local repository, tracked from the start with
\* no merge message, the merge message of a merge in progress, and the Remote
\* one, tracked from the start as clean, a modified status.
MatchedHandleTakesComputedWitness ==
    /\ last_pass.ran
    /\ entities[1].git_repo = "Local"
    /\ entities[1].merge_message = Some("merge")
    /\ entities[2].git_repo = "Remote"
    /\ entities[2].repository_entry.status = "modified"

\* C28: a pass leaves the commit message buffer, the askpass correlation map
\* and the askpass id counter of every repository it keeps as they were.
PassKeepsLongLivedState ==
    [][ PassStep =>
          \A h \in Range(repositories) \cap Range(repositories') :
              /\ entities'[h].commit_message_buffer = entities[h].commit_message_buffer
              /\ entities'[h].askpass_delegates = entities[h].askpass_delegates
              /\ entities'[h].latest_askpass_id = entities[h].latest_askpass_id ]_vars

\* C28 witness: a pass changed the status snapshot of a repository it kept
\* while the kept repositories held an open commit buffer and the delegate of
\* a fetch in progress, and they hold them still.
PassKeepsLongLivedWitness ==
    /\ last_pass.ran
    /\ last_pass.refreshed
    /\ last_pass.long_lived
    /\ \E h \in Range(repositories) : entities[h].commit_message_buffer # None
    /\ \E h \in Range(repositories) :
          entities[h].askpass_delegates # {} /\ entities[h].latest_askpass_id > 0

\* C29: no step changes the backend variant of a Repository entity, and the
\* variant a job was given at its submission is the variant of its repository.
BackendVariantFixed ==
    /\ [][ \A h \in DOMAIN entities \cap DOMAIN entities' :
              entities'[h].git_repo = entities[h].git_repo ]_vars
    /\ [](\A j \in JobIds :
              job_table[j].repo \in DOMAIN entities
                  => job_table[j].git_repo = entities[job_table[j].repo].git_repo)

\* C29 witness: a pass changed the status snapshot of a repository while a job
\* on the Remote backend was waiting for the worker, and the job has run since.
BackendVariantFixedWitness ==
    /\ last_pass.ran
    /\ last_pass.refreshed
    /\ \E j \in last_pass.queued :
          /\ job_table[j].git_repo = "Remote"
          /\ j \in Range(executed)

====
